---- MODULE Spec2Model ----
(***************************************************************************)
(* Verification model of the viot-scanner discovery engine (detect-viz/    *)
(* ViOT): SNMP signature matching and the dependency cascade of            *)
(* ScanDevice, the dedup and persistence of results into the pending CSV   *)
(* lists, the per-IP fan-out of runScanProcess and the room fan-out of     *)
(* RunScanRoom.  Each part has its own specification over its own          *)
(* variables; the variables of the other parts stay at their idle values.  *)
(*                                                                         *)
(* Strings whose content matters (match signatures, SNMP answers) are      *)
(* sequences of characters, so that strings.Contains is a real substring   *)
(* test.  Identity keys are sequences <<ip, port>> or <<ip, port, slave>>, *)
(* the fields fmt.Sprintf joins with ":".                                  *)
(***************************************************************************)
EXTENDS Integers, Sequences, FiniteSets, TLC

VARIABLES
    \* ---- SNMP matching and ScanDevice (services/collect.go)
    Targets,          \* global.SNMPInstanceLib.Targets, configuration order
    Dependencies,     \* global.Dependencies
    matchResult,      \* snmpMatchResult: candidate strings of one IP
    snmpScanResult,   \* the record MatchSnmpInstances returned
    detailSession,    \* the session MatchSnmpInstances used for the detail phase
    results,          \* ScanDevice's results slice
    scanErrors,       \* number of entries of ScanDevice's scanErrors
    modbusSweeps,     \* calls of MatchModbusInstances made by this ScanDevice
    depIdx,           \* position of the range loop over global.Dependencies
    scanPc,           \* "start" | "deps" | "done"
    \* ---- dedup and persistence (services/part_002, global/global.go)
    filePdu,          \* scan_pdu.csv: [exists, rows]
    fileDev,          \* scan_device.csv: [exists, rows]
    registry,         \* ip_key column of registry_pdu.csv and registry_device.csv
    ScanIPKeyList,    \* global.ScanIPKeyList
    ScanResults,      \* global.ScanResults, keyed by ip_key
    allResults,       \* the batch runScanProcess hands to SaveResults
    saveResults,      \* what SaveResults returned (<<>> for nil)
    persistPc,        \* "idle" | "loaded" | "saved": position in runScanProcess
    cycle,            \* scan cycles begun
    \* history of the persistence, read only by the properties
    cycleStartPdu,    \* rows of scan_pdu.csv when the cycle began
    cycleStartDev,    \* rows of scan_device.csv when the cycle began
    ioClean,          \* every write of this cycle's SaveResults reached its file
    repeated,         \* this cycle persisted the batch of the previous cycle
    lastCrashed,      \* the process crashed in the last persistence step
                      \* again, and every write of that cycle reached its file
    \* ---- the per-IP fan-out of runScanProcess (part_003)
    devKind,          \* what answers at each alive IP
    ipMaxConcurrent,  \* global.Config.Scanner.MaxConcurrent
    snmpAvailableInfos, \* the IPs TestSnmpConnect accepted
    fanPc,            \* "start" | "spawn" | "collectErr" | "collectRes" | "persist" | "ended"
                      \* | "crashed"
    spawnIdx,         \* position of the loop of line 106
    wPc,              \* per worker: "none" | "scan" | "sendErr" | "sendRes" | "done"
    wRes,             \* per worker: the records still to send on resultChan
    wTimedOut,        \* per worker: its ScanDevice returned by timeout
    wReturned,        \* per worker: what its ScanDevice returned, and how
    ipSem,            \* tokens in semaphore
    wgCount,          \* the WaitGroup counter
    resultChan,       \* buffered, capacity 2 * len(snmpAvailableInfos)
    errChanFan,       \* errors in errChan, capacity len(snmpAvailableInfos)
    fanClosed,        \* resultChan and errChan are closed
    fanErrors,        \* len(scanErrors) of runScanProcess
    collected,        \* allResults of runScanProcess
    taskRunning,      \* per worker: the task of collect.go 23 runs on after the timeout
    \* ---- RunScanRoom (scan_service.go)
    ipRanges,         \* len(global.IPRangeConfigs)
    roomMaxConcurrent,\* scanner.MaxConcurrent
    roomMainPc,       \* "spawn" | "collect" | "returned"
    roomIdx,          \* position of the loop of line 25
    roomPc,           \* per room task: "none" | "waiting" | "sendTimeout" | "done"
    sweepPc,          \* per sweep: "none" | "running" | "sendErr" | "recover" | "done"
    roomSem,          \* tokens in semaphore
    roomWg,           \* the WaitGroup counter
    roomErrChan,      \* errors in errChan, capacity len(ipRanges)
    roomErrClosed,    \* errChan is closed
    roomErrors,       \* len(errors)
    sendOnClosed,     \* a send was attempted on the closed errChan
    crashed,          \* a panic left a goroutine unrecovered
    allScanActiveIPInfo, \* the rooms whose alive IPs are in the map of line 22
    activeIPInfos,    \* the map RunScanRoom returned (part_003 55), by its rooms
    activeIPs,        \* the rooms whose alive IPs runScanProcess passes on
    cyclePc,          \* "rooms" | "aborted" | "empty" | "identify"
    roomFailed,       \* the rooms the errors sent on errChan name
    \* ---- CalculateCIDR and ExpandRange (utils/fping_ip.go)
    startIP,          \* the text of the first address
    endIP,            \* the text of the last address
    addrPc,           \* "input" | "cidr" | "loop" | "expanded"
    cidrOut,          \* what CalculateCIDR returned
    expI,             \* the loop variable i of ExpandRange
    ips,              \* the list ExpandRange builds
    expErr,           \* the error ExpandRange returned
    rangeActiveIPs,   \* keys of allScanActiveIPInfo the room [startIP, endIP] stored
    \* ---- parseUptimeToSeconds (collect.go)
    uptimeField,      \* the uptime entry of the detail result
    uptimePc,         \* "input" | "parsed"
    Uptime,           \* instanceInfo.Uptime
    \* ---- ExecuteFping (utils/fping_ip.go) and its caller
    fpingRun,         \* what running the fping command gave
    fpingPc,          \* "input" | "returned" | "reported"
    fpingOut,         \* what ExecuteFping returned
    sweepReport,      \* what the sweep of RunScanRoom made of it
    \* ---- the scan-interval override (global/scan_task.go, scan_api.go)
    roomSchedules,    \* Scanner.roomSchedules
    now,              \* the clock, in minutes
    lastPost,         \* per room: the last accepted interval request
    reported,         \* the answer of the last interval query
    \* ---- MatchModbusInstances (collect.go) and GetModbusValue (modbus.go)
    mbMode,           \* global.ModbusSettings.Mode
    mbPort,           \* global.ModbusSettings.Port
    mbSlaveID,        \* global.ModbusSettings.SlaveID
    mbTargetConfigs,  \* the Modbus targets of the configuration, in order
    pairAnswer,       \* per (port, slave ID): what the match read meets there
    mbPos,            \* position in MatchModbusInstances: pc, port, slave, detail
    modbusConnInfos,  \* modbusConnInfos of MatchModbusInstances
    mbResults,        \* results of MatchModbusInstances
    openConns,        \* Modbus connections open
    matchReads,       \* per (port, slave ID): calls of GetModbusValue(matchSession)
    connSlaveID,      \* Conn.SlaveID of the session of the last GetModbusValue call
    \* ---- ScanDevice and its task, step by step (collect.go 17-66)
    sdKind,           \* what the device behind the IP is
    taskPc,           \* the task of line 23: "snmp" | "modbus" | "closing" | "ended"
    sdResults,        \* results of ScanDevice, shared with the task
    sdScanErrors,     \* len(scanErrors) of ScanDevice, shared with the task
    doneClosed,       \* the channel done is closed
    callerPc,         \* ScanDevice itself: "select" | "returned" | "handled"
    sdReturned,       \* what ScanDevice returned
    cycleOutput,      \* the records of this IP the worker sent on resultChan
    cycleErrors,      \* the errors of this IP the worker sent on errChan
    taskWrites,       \* the shared variables the task has written
    unsyncedReads,    \* the shared variables ScanDevice read without having received from done
    \* ---- the identity key (services/part_002)
    keyRecs,          \* two records of a scan cycle
    keyPc,            \* "input" | "filtered" | "registered" | "both"
    filteredKeys,     \* the ipKey FilteredResults derives for each record
    registeredKeys,   \* the ipKey FilterRegisteredDevices derives for each record
    \* ---- the scan manager (pkg/scanner/scan_manager.go)
    statusRunning,    \* s.status.Running
    scanTasks,        \* the runScan goroutines started so far: [pc, cancelled, left]
    lastReturn        \* what the last StartScan or StopScan returned

matchVars == <<Targets, Dependencies, matchResult, snmpScanResult, detailSession, results,
               scanErrors, modbusSweeps, depIdx, scanPc>>

persistVars == <<filePdu, fileDev, registry, ScanIPKeyList, ScanResults,
                 allResults, saveResults, persistPc, cycle, cycleStartPdu,
                 cycleStartDev, ioClean, repeated, lastCrashed>>

fanVars == <<devKind, ipMaxConcurrent, snmpAvailableInfos, fanPc, spawnIdx, wPc,
             wRes, wTimedOut, wReturned, ipSem, wgCount, resultChan, errChanFan, fanClosed,
             fanErrors, collected, taskRunning>>

roomVars == <<ipRanges, roomMaxConcurrent, roomMainPc, roomIdx, roomPc, sweepPc,
              roomSem, roomWg, roomErrChan, roomErrClosed, roomErrors, sendOnClosed,
              crashed, allScanActiveIPInfo, activeIPInfos, activeIPs, cyclePc,
              roomFailed>>

addrVars == <<startIP, endIP, addrPc, cidrOut, expI, ips, expErr, rangeActiveIPs>>

uptimeVars == <<uptimeField, uptimePc, Uptime>>

fpingVars == <<fpingRun, fpingPc, fpingOut, sweepReport>>

schedVars == <<roomSchedules, now, lastPost, reported>>

modbusVars == <<mbMode, mbPort, mbSlaveID, mbTargetConfigs, pairAnswer, mbPos, connSlaveID,
                modbusConnInfos, mbResults, openConns, matchReads>>

raceVars == <<sdKind, taskPc, sdResults, sdScanErrors, doneClosed, callerPc, sdReturned,
              cycleOutput, cycleErrors, taskWrites, unsyncedReads>>

keyVars == <<keyRecs, keyPc, filteredKeys, registeredKeys>>

mgrVars == <<statusRunning, scanTasks, lastReturn>>

vars == <<matchVars, persistVars, fanVars, roomVars, addrVars, uptimeVars, fpingVars, schedVars, modbusVars, raceVars, keyVars, mgrVars>>

\* what a step of one part leaves alone
NotMatch == <<persistVars, fanVars, roomVars, addrVars, uptimeVars, fpingVars, schedVars, modbusVars, raceVars, keyVars, mgrVars>>
NotPersist == <<matchVars, fanVars, roomVars, addrVars, uptimeVars, fpingVars, schedVars, modbusVars, raceVars, keyVars, mgrVars>>
NotFan == <<matchVars, persistVars, roomVars, addrVars, uptimeVars, fpingVars, schedVars, modbusVars, raceVars, keyVars, mgrVars>>
NotRoom == <<matchVars, persistVars, fanVars, addrVars, uptimeVars, fpingVars, schedVars, modbusVars, raceVars, keyVars, mgrVars>>
NotAddr == <<matchVars, persistVars, fanVars, roomVars, uptimeVars, fpingVars, schedVars, modbusVars, raceVars, keyVars, mgrVars>>
NotUptime == <<matchVars, persistVars, fanVars, roomVars, addrVars, fpingVars, schedVars, modbusVars, raceVars, keyVars, mgrVars>>
NotFping == <<matchVars, persistVars, fanVars, roomVars, addrVars, uptimeVars, schedVars, modbusVars, raceVars, keyVars, mgrVars>>
NotSched == <<matchVars, persistVars, fanVars, roomVars, addrVars, uptimeVars, fpingVars, modbusVars, raceVars, keyVars, mgrVars>>
NotModbus == <<matchVars, persistVars, fanVars, roomVars, addrVars, uptimeVars, fpingVars, schedVars, raceVars, keyVars, mgrVars>>
NotRace == <<matchVars, persistVars, fanVars, roomVars, addrVars, uptimeVars, fpingVars, schedVars, modbusVars, keyVars, mgrVars>>
NotKey == <<matchVars, persistVars, fanVars, roomVars, addrVars, uptimeVars, fpingVars, schedVars, modbusVars, raceVars, mgrVars>>
NotMgr == <<matchVars, persistVars, fanVars, roomVars, addrVars, uptimeVars, fpingVars, schedVars, modbusVars, raceVars, keyVars>>

-----------------------------------------------------------------------------
(* Bounds of the model *)

\* most entries of the dependency table
MaxDeps == 2
\* most scans StartScan is asked for
MaxScans == 4
\* most alive addresses one scan identifies
MaxAlive == 2
\* most records one Modbus sweep returns
MaxModbus == 2
\* most records of one batch handed to SaveResults
MaxBatch == 2
\* scan cycles of one run
MaxCycles == 3
\* alive IPs of one cycle
MaxIPs == 2
\* largest configured max_concurrent
MaxSem == 2
\* largest number of configured rooms
MaxRooms == 4
\* addresses ExpandRange may append before the model stops following it
MaxExpand == 3
\* lines of output of one fping run
MaxLines == 3
\* minutes the clock of the interval override runs
MaxTime == 4

-----------------------------------------------------------------------------
(* Helpers *)

BSeq(S, n) == UNION {[1..k -> S] : k \in 0..n}

\* strings.Contains(s, sub)
Contains(s, sub) ==
    \E i \in 0..(Len(s) - Len(sub)) : SubSeq(s, i + 1, i + Len(sub)) = sub

\* models.UNKNOWN_NAME and models.DEFAULT_UNKNOWN_VALUE
UNKNOWN_NAME == "unknown"
DEFAULT_UNKNOWN_VALUE == "unknown"
PROTOCOL_SNMP == "snmp"
PROTOCOL_MODBUS == "modbus"
InstanceTypePDU == "pdu"
InstanceTypeGateway == "gateway"
InstanceTypeUnknown == "unknown"

\* the literal "<nil>" that fmt prints for a nil value
NilText == <<"<", "n", "i", "l", ">">>

\* global.SNMPSettings.Port
SnmpPort == 161

\* the IP ScanDevice is called for
ProbedIP == "10.1.1.1"

-----------------------------------------------------------------------------
(* Configuration: the SNMP library and the dependency table *)

\* match_value_contains of a target (targets.yaml): "P" is contained in "PX"
\* as "PDU" is in "PDUX"
SigSet == {<<"P">>, <<"P", "X">>, <<"X", "X">>, <<"n", "i", "l">>}

\* what a device answers to a match OID, after the join of line 126
AnswerSet == {<<>>, <<"X">>, <<"P", "X">>, <<"X", "P">>, <<"X", "X", "P">>,
              NilText}

\* the configured SNMP device types (models.Target)
TargetBases ==
    { [Name |-> "IOT_CLIENT-LIENEO-WCM-421", Model |-> "WCM-421",
       InstanceType |-> InstanceTypeGateway],
      [Name |-> "PDU-DELTA-PDUE428", Model |-> "PDUE428",
       InstanceType |-> InstanceTypePDU] }

TargetSet ==
    { [Name |-> b.Name, Model |-> b.Model, InstanceType |-> b.InstanceType,
       Protocol |-> PROTOCOL_SNMP, MatchValueContains |-> sig] :
          b \in TargetBases, sig \in SigSet }

\* loadSNMPInstanceLib keeps the SNMP targets in configuration order
TargetConfigs ==
    { t \in BSeq(TargetSet, Cardinality(TargetBases)) :
        /\ Len(t) >= 1
        /\ \A i, j \in 1..Len(t) : i # j => t[i].Name # t[j].Name }

\* source_target values a dependency table can hold (any string of the YAML)
SourceNames == {b.Name : b \in TargetBases} \cup {UNKNOWN_NAME}

\* the Modbus target names, models/constants.go 35-36
PDU4445_NAME == "PDU-DELTA-PDU4445"
PDU1315_NAME == "PDU-DELTA-PDU1315"

\* linked_target values of a dependency (part_006 45)
LinkedTargets == {<<PDU1315_NAME>>, <<PDU4445_NAME>>}

DependencyConfigs ==
    BSeq([SourceTarget : SourceNames, LinkedTarget : LinkedTargets], MaxDeps)

-----------------------------------------------------------------------------
(* GetSNMPTargetByMatchModelValue, collect.go 164-212 *)

NoInstance == [TargetName |-> "", IP |-> "", Port |-> 0, Protocol |-> "",
               Model |-> "", InstanceType |-> "", SlaveID |-> 0]

\* the record built at lines 182-190 for target t
InstanceOf(t, ip, port, protocol) ==
    [TargetName |-> t.Name, IP |-> ip, Port |-> port, Protocol |-> protocol,
     Model |-> t.Model, InstanceType |-> t.InstanceType, SlaveID |-> 0]

\* the record built at lines 200-207 when nothing matched
UnknownInstance ==
    [TargetName |-> UNKNOWN_NAME, IP |-> "", Port |-> SnmpPort,
     Protocol |-> PROTOCOL_SNMP, Model |-> DEFAULT_UNKNOWN_VALUE,
     InstanceType |-> InstanceTypeUnknown, SlaveID |-> 0]

\* the zero value of the detailSession variable of line 166
NoSession == [BuiltFor |-> ""]

\* the detail sessions in reverse order of the targets
DetailFieldSessionsReversed(tgts) ==
    [i \in 1..Len(tgts) |-> [BuiltFor |-> tgts[Len(tgts) + 1 - i].Name]]

\* config.go 230-236: one detail session per SNMP target, appended in the
\* same iteration as the target, carrying the field request of its name
DetailFieldSessions(tgts) ==
    [i \in 1..Len(tgts) |-> [BuiltFor |-> tgts[i].Name]]

\* config.go 240-246: the session built from the request of UNKNOWN_NAME
UnknownSession == [BuiltFor |-> UNKNOWN_NAME]

\* the inner loop, lines 174-194, from target i on: acc is
\* [isMatchInstance, instanceInfo, detailSession]; every matching target
\* overwrites it
RECURSIVE TargetLoop(_, _, _, _, _, _)
TargetLoop(tgts, matchValue, i, acc, ip, port) ==
    IF i > Len(tgts) THEN acc
    ELSE IF tgts[i].Protocol # PROTOCOL_SNMP
         THEN TargetLoop(tgts, matchValue, i + 1, acc, ip, port)
    ELSE IF Contains(matchValue, tgts[i].MatchValueContains)
         THEN TargetLoop(tgts, matchValue, i + 1,
                         [isMatchInstance |-> TRUE,
                          instanceInfo |-> InstanceOf(tgts[i], ip, port, PROTOCOL_SNMP),
                          detailSession |-> DetailFieldSessions(tgts)[i]],
                         ip, port)
    ELSE TargetLoop(tgts, matchValue, i + 1, acc, ip, port)

\* the outer loop, lines 170-195, from candidate j on
RECURSIVE MatchValueLoop(_, _, _, _, _, _)
MatchValueLoop(tgts, mr, j, acc, ip, port) ==
    IF j > Len(mr) THEN acc
    ELSE IF mr[j] = NilText \/ mr[j] = <<>> \/ acc.isMatchInstance
         THEN MatchValueLoop(tgts, mr, j + 1, acc, ip, port)
    ELSE MatchValueLoop(tgts, mr, j + 1,
                        TargetLoop(tgts, mr[j], 1, acc, ip, port), ip, port)

GetSNMPTargetByMatchModelValue(tgts, ip, port, mr) ==
    LET acc == MatchValueLoop(tgts, mr, 1,
                   [isMatchInstance |-> FALSE, instanceInfo |-> NoInstance,
                    detailSession |-> NoSession],
                   ip, port)
    IN  IF acc.isMatchInstance
        THEN <<acc.instanceInfo, acc.detailSession>>
        ELSE <<UnknownInstance, UnknownSession>>

-----------------------------------------------------------------------------
(* ScanDevice, collect.go 17-66: the task body of lines 31-51 *)

\* the k-th record a Modbus sweep of ip can return (collect.go 275-283): its
\* model is the one of the first target of the Modbus library (244-256),
\* here PDU-DELTA-PDU1315, and no target name is set
ModbusRecord(ip, k) ==
    [TargetName |-> "", IP |-> ip, Port |-> 7000, Protocol |-> PROTOCOL_MODBUS,
     Model |-> "PDU1315", InstanceType |-> InstanceTypePDU, SlaveID |-> k]

\* what MatchModbusInstances(ip) returns when n pairs answer
ModbusResults(ip, n) == [k \in 1..n |-> ModbusRecord(ip, k)]

MatchStart ==
    /\ Targets \in TargetConfigs
    /\ Dependencies \in DependencyConfigs
    /\ matchResult = <<>>
    /\ snmpScanResult = NoInstance
    /\ detailSession = NoSession
    /\ results = <<>>
    /\ scanErrors = 0
    /\ modbusSweeps = 0
    /\ depIdx = 1
    /\ scanPc = "start"

\* lines 32-36: MatchSnmpInstances (which never returns an error, line 159)
\* and the append of its record; one candidate per match session that
\* answered (lines 104-127)
MatchSnmpInstances ==
    /\ scanPc = "start"
    /\ \E mr \in BSeq(AnswerSet, Len(Targets)) :
          /\ matchResult' = mr
          /\ LET found == GetSNMPTargetByMatchModelValue(Targets, ProbedIP,
                                                          SnmpPort, mr)
             IN  /\ snmpScanResult' = found[1]
                 /\ detailSession' = found[2]
    /\ results' = <<snmpScanResult'>>
    /\ depIdx' = 1
    /\ scanPc' = "deps"
    /\ UNCHANGED <<Targets, Dependencies, scanErrors, modbusSweeps>>

\* lines 39-50, one iteration whose source matches: the Modbus sweep
DependencySweep ==
    /\ scanPc = "deps"
    /\ depIdx <= Len(Dependencies)
    /\ snmpScanResult.TargetName = Dependencies[depIdx].SourceTarget
    /\ \E n \in 0..MaxModbus :
          IF n > 0
          THEN /\ results' = results \o ModbusResults(snmpScanResult.IP, n)
               /\ scanErrors' = scanErrors
          ELSE /\ results' = results
               /\ scanErrors' = scanErrors + 1
    /\ modbusSweeps' = modbusSweeps + 1
    /\ depIdx' = depIdx + 1
    /\ UNCHANGED <<Targets, Dependencies, matchResult, snmpScanResult,
                   detailSession, scanPc>>

\* lines 39-50, one iteration whose source is another target
DependencySkip ==
    /\ scanPc = "deps"
    /\ depIdx <= Len(Dependencies)
    /\ snmpScanResult.TargetName # Dependencies[depIdx].SourceTarget
    /\ depIdx' = depIdx + 1
    /\ UNCHANGED <<Targets, Dependencies, matchResult, snmpScanResult,
                   detailSession, results, scanErrors, modbusSweeps, scanPc>>

\* line 52: the task ends and closes done
ScanTaskDone ==
    /\ scanPc = "deps"
    /\ depIdx > Len(Dependencies)
    /\ scanPc' = "done"
    /\ UNCHANGED <<Targets, Dependencies, matchResult, snmpScanResult,
                   detailSession, results, scanErrors, modbusSweeps, depIdx>>

-----------------------------------------------------------------------------
(* Dedup and persistence: services/part_002 (FilteredResults, SaveResults,  *)
(* saveToCSV), utils.ReadCSVByColumn, global.InitScanList and              *)
(* global.UpdateScanResults.  A CSV cell is a tuple of strings: <<text>>   *)
(* for a plain cell, <<ip, port>> or <<ip, port, slave>> for an ip_key,    *)
(* the parts fmt.Sprintf joins with ":".                                   *)

\* strconv / %d of the integers the model uses
Itoa(n) ==
    CASE n = 0 -> "0" [] n = 1 -> "1" [] n = 2 -> "2"
      [] n = 161 -> "161" [] n = 7000 -> "7000" [] n = 7001 -> "7001"

\* the ip_key of lines 52-59 of part_002
IPKeyOf(r) ==
    IF r.Protocol = PROTOCOL_MODBUS
    THEN <<r.IP, Itoa(r.Port), Itoa(r.SlaveID)>>
    ELSE <<r.IP, Itoa(r.Port)>>

\* records a scan cycle can collect (models.ScanInstanceInfo); IPKey is
\* empty until FilteredResults fills it
ResultSet ==
    { [IP |-> "10.1.1.1", Port |-> 161, SlaveID |-> 0, Protocol |-> PROTOCOL_SNMP,
       Model |-> "PDUE428", InstanceType |-> InstanceTypePDU, IPKey |-> <<>>],
      [IP |-> "10.1.1.2", Port |-> 161, SlaveID |-> 0, Protocol |-> PROTOCOL_SNMP,
       Model |-> "WCM-421", InstanceType |-> InstanceTypeGateway, IPKey |-> <<>>],
      [IP |-> "10.1.1.2", Port |-> 7000, SlaveID |-> 1, Protocol |-> PROTOCOL_MODBUS,
       Model |-> "PDU1315", InstanceType |-> InstanceTypePDU, IPKey |-> <<>>],
      [IP |-> "", Port |-> 161, SlaveID |-> 0, Protocol |-> PROTOCOL_SNMP,
       Model |-> DEFAULT_UNKNOWN_VALUE, InstanceType |-> InstanceTypeUnknown,
       IPKey |-> <<>>] }

Batches == BSeq(ResultSet, MaxBatch)

\* slices.Contains
SeqContains(list, x) == \E i \in 1..Len(list) : list[i] = x

\* the header rows of part_002 17-40 (the columns the model's rows carry)
pending_pdu_header ==
    << <<"ip_key">>, <<"model">>, <<"ip">>, <<"protocol">>, <<"instance_type">> >>
pending_device_header ==
    << <<"ip_key">>, <<"ip">>, <<"protocol">>, <<"model">>, <<"instance_type">> >>

\* the record rows of part_002 155-179
PduRecord(r) == << r.IPKey, <<r.Model>>, <<r.IP>>, <<r.Protocol>>, <<r.InstanceType>> >>
DeviceRecord(r) == << r.IPKey, <<r.IP>>, <<r.Protocol>>, <<r.Model>>, <<r.InstanceType>> >>

NoFile == [exists |-> FALSE, rows |-> <<>>]

\* a pending file that exists and holds nothing yet
EmptyFile == [exists |-> TRUE, rows |-> <<>>]

\* utils.ReadCSVByColumn: the first row is taken as the header row
ReadCSVByColumn(file, columnName) ==
    IF ~file.exists \/ file.rows = <<>> THEN <<>>
    ELSE LET headers == file.rows[1]
             cols == {i \in 1..Len(headers) : headers[i] = <<columnName>>}
         IN  IF cols = {} THEN <<>>
             ELSE LET columnIndex == CHOOSE i \in cols : \A k \in cols : i <= k
                  IN  [k \in 1..(Len(file.rows) - 1) |-> file.rows[k + 1][columnIndex]]

\* FilteredResults, part_002 43-73, from record i on
RECURSIVE FilteredResultsFrom(_, _, _)
FilteredResultsFrom(rs, i, keyList) ==
    IF i > Len(rs) THEN <<>>
    ELSE IF rs[i].Model = DEFAULT_UNKNOWN_VALUE
         THEN FilteredResultsFrom(rs, i + 1, keyList)
    ELSE IF ~SeqContains(keyList, IPKeyOf(rs[i]))
         THEN <<[rs[i] EXCEPT !.IPKey = IPKeyOf(rs[i])]>>
                 \o FilteredResultsFrom(rs, i + 1, keyList)
    ELSE FilteredResultsFrom(rs, i + 1, keyList)

FilteredResults(rs, keyList) == FilteredResultsFrom(rs, 1, keyList)

\* ClassifyResults, collect.go 79-90
PduResults(rs) == SelectSeq(rs, LAMBDA r : r.InstanceType = InstanceTypePDU)
DeviceResults(rs) == SelectSeq(rs, LAMBDA r : r.InstanceType # InstanceTypePDU)

\* what the operating system can do to one saveToCSV call
\*   "ok":       the file is opened and the deferred Flush writes every row
\*   "openFail": os.OpenFile fails (line 133), nothing is created or written
\*   "lost":     os.OpenFile creates or opens the file, the write of the
\*               deferred Flush fails (disk full) and its error is dropped
\*               (line 139): saveToCSV returns nil and nothing was written
IOOutcomes == {"ok", "openFail", "lost"}

\* the rows saveToCSV hands to its csv.Writer, part_002 126-185
RowsToWrite(file, rs, isPDU) ==
    (IF ~file.exists
     THEN <<IF isPDU THEN pending_pdu_header ELSE pending_device_header>>
     ELSE <<>>)
    \o [k \in 1..Len(rs) |-> IF isPDU THEN PduRecord(rs[k]) ELSE DeviceRecord(rs[k])]

\* saveToCSV, part_002 115-188: the file afterwards
SaveToCSVFile(file, rs, isPDU, io) ==
    CASE io = "ok" ->
            [exists |-> TRUE, rows |-> file.rows \o RowsToWrite(file, rs, isPDU)]
      [] io = "lost" -> [exists |-> TRUE, rows |-> file.rows]
      [] io = "openFail" -> file

\* saveToCSV, part_002 115-188: whether it returns an error
SaveToCSVErr(io) == io = "openFail"

PersistStart ==
    /\ filePdu \in {NoFile, EmptyFile}
    /\ fileDev \in {NoFile, EmptyFile}
    /\ registry \in {<<>>, << <<"10.1.1.1", "161">> >>}
    /\ ScanIPKeyList = <<>>
    /\ ScanResults = <<>>
    /\ allResults = <<>>
    /\ saveResults = <<>>
    /\ persistPc = "idle"
    /\ cycle = 0
    /\ cycleStartPdu = <<>>
    /\ cycleStartDev = <<>>
    /\ ioClean = FALSE
    /\ repeated = FALSE
    /\ lastCrashed = FALSE

\* the variables of the persistence while another part is checked
PersistIdle ==
    /\ filePdu = NoFile
    /\ fileDev = NoFile
    /\ registry = <<>>
    /\ ScanIPKeyList = <<>>
    /\ ScanResults = <<>>
    /\ allResults = <<>>
    /\ saveResults = <<>>
    /\ persistPc = "idle"
    /\ cycle = 0
    /\ cycleStartPdu = <<>>
    /\ cycleStartDev = <<>>
    /\ ioClean = FALSE
    /\ repeated = FALSE
    /\ lastCrashed = FALSE

\* global.InitScanList, global.go 49-65, called first by runScanProcess
InitScanList ==
    /\ persistPc = "idle"
    /\ cycle < MaxCycles
    /\ ScanIPKeyList' = ReadCSVByColumn(filePdu, "ip_key")
                           \o ReadCSVByColumn(fileDev, "ip_key")
    /\ cycle' = cycle + 1
    /\ cycleStartPdu' = filePdu.rows
    /\ cycleStartDev' = fileDev.rows
    /\ persistPc' = "loaded"
    /\ UNCHANGED <<filePdu, fileDev, registry, ScanResults, allResults,
                   saveResults, ioClean, repeated, lastCrashed>>

\* SaveResults, part_002 76-112, on the batch the cycle collected
SaveResults ==
    /\ persistPc = "loaded"
    /\ \E batch \in Batches, ioPdu \in IOOutcomes, ioDev \in IOOutcomes :
          LET filteredResults == FilteredResults(batch, ScanIPKeyList)
              pduResult == PduResults(filteredResults)
              deviceResult == DeviceResults(filteredResults)
              pduErr == pduResult # <<>> /\ SaveToCSVErr(ioPdu)
              devErr == deviceResult # <<>> /\ SaveToCSVErr(ioDev)
          IN  /\ allResults' = batch
              /\ repeated' = (cycle > 1 /\ batch = allResults /\ ioClean)
              /\ filePdu' = IF pduResult # <<>>
                            THEN SaveToCSVFile(filePdu, pduResult, TRUE, ioPdu)
                            ELSE filePdu
              /\ fileDev' = IF deviceResult # <<>>
                            THEN SaveToCSVFile(fileDev, deviceResult, FALSE, ioDev)
                            ELSE fileDev
              /\ saveResults' = IF pduErr \/ devErr THEN <<>> ELSE filteredResults
              /\ ioClean' = /\ (pduResult = <<>> \/ ioPdu = "ok")
                            /\ (deviceResult = <<>> \/ ioDev = "ok")
    /\ persistPc' = "saved"
    /\ lastCrashed' = FALSE
    /\ UNCHANGED <<registry, ScanIPKeyList, ScanResults, cycle, cycleStartPdu,
                   cycleStartDev>>

\* the process ends inside SaveResults, part_002 76-112, and is started
\* again: the file being written was created or opened (line 132) and holds
\* the rows that had reached it, the file saved before it is complete, and
\* the lists kept in memory are gone
SaveResultsCrash ==
    /\ persistPc = "loaded"
    /\ \E batch \in Batches, stage \in {"pdu", "device"} :
          LET filteredResults == FilteredResults(batch, ScanIPKeyList)
              pduResult == PduResults(filteredResults)
              deviceResult == DeviceResults(filteredResults)
              pduRows == RowsToWrite(filePdu, pduResult, TRUE)
              devRows == RowsToWrite(fileDev, deviceResult, FALSE)
          IN  IF stage = "pdu"
              THEN /\ pduResult # <<>>
                   /\ \E n \in 0..Len(pduRows) :
                         filePdu' = [exists |-> TRUE,
                                     rows |-> filePdu.rows \o SubSeq(pduRows, 1, n)]
                   /\ UNCHANGED fileDev
              ELSE /\ deviceResult # <<>>
                   /\ filePdu' = IF pduResult # <<>>
                                 THEN SaveToCSVFile(filePdu, pduResult, TRUE, "ok")
                                 ELSE filePdu
                   /\ \E n \in 0..Len(devRows) :
                         fileDev' = [exists |-> TRUE,
                                     rows |-> fileDev.rows \o SubSeq(devRows, 1, n)]
    /\ ScanIPKeyList' = <<>>
    /\ ScanResults' = <<>>
    /\ allResults' = <<>>
    /\ saveResults' = <<>>
    /\ ioClean' = FALSE
    /\ repeated' = FALSE
    /\ lastCrashed' = TRUE
    /\ persistPc' = "idle"
    /\ UNCHANGED <<registry, cycle, cycleStartPdu, cycleStartDev>>

\* the list UpdateScanResults leaves, global.go 73-80, from record i on
RECURSIVE AppendNewKeys(_, _, _)
AppendNewKeys(keyList, rs, i) ==
    IF i > Len(rs) THEN keyList
    ELSE AppendNewKeys(IF SeqContains(keyList, rs[i].IPKey) THEN keyList
                       ELSE Append(keyList, rs[i].IPKey), rs, i + 1)

\* global.UpdateScanResults, global.go 68-82
UpdateScanResults ==
    /\ persistPc = "saved"
    /\ ScanIPKeyList' = AppendNewKeys(ScanIPKeyList, saveResults, 1)
    /\ ScanResults' =
          [k \in {saveResults[i].IPKey : i \in 1..Len(saveResults)} |->
              LET last == CHOOSE i \in 1..Len(saveResults) :
                             /\ saveResults[i].IPKey = k
                             /\ \A j \in 1..Len(saveResults) :
                                   saveResults[j].IPKey = k => j <= i
              IN  saveResults[last]]
    /\ persistPc' = "idle"
    /\ UNCHANGED <<filePdu, fileDev, registry, allResults, saveResults, cycle,
                   cycleStartPdu, cycleStartDev, ioClean, repeated, lastCrashed>>

-----------------------------------------------------------------------------
(* The per-IP fan-out of runScanProcess, part_003 73-143 *)

IPs == 1..MaxIPs

\* the address of alive IP i
IPAddr(i) == IF i = 1 THEN "10.1.1.1" ELSE IF i = 2 THEN "10.1.1.2" ELSE "10.1.1.3"

\* what can answer at an alive IP:
\*   "nosnmp":  alive, no SNMP answer
\*   "unknown": answers SNMP, no signature matches
\*   "pdu":     answers SNMP and matches a target that is no dependency source
\*   <<"gateway", k>>: matches the source target of the dependency table,
\*                     with k Modbus devices behind it
DeviceKinds ==
    {<<"nosnmp">>, <<"unknown">>, <<"pdu">>} \cup {<<"gateway", k>> : k \in 0..MaxModbus}

\* TestSnmpConnect, snmp.go 33-64
TestSnmpConnect(kind) == kind # <<"nosnmp">>

\* the IPs of lines 75-86, in the order of activeIPs
RECURSIVE SnmpAvailableFrom(_, _)
SnmpAvailableFrom(kinds, i) ==
    IF i > MaxIPs THEN <<>>
    ELSE (IF TestSnmpConnect(kinds[i]) THEN <<i>> ELSE <<>>)
            \o SnmpAvailableFrom(kinds, i + 1)

SnmpRec(ip) == [IP |-> ip, Protocol |-> PROTOCOL_SNMP]
ModbusRec(ip, k) == [IP |-> ip, Protocol |-> PROTOCOL_MODBUS, SlaveID |-> k]

\* the records of a device, in the order ScanDevice appends them: the SNMP
\* record (the unknown record carries no IP, collect.go 200-207), then the
\* Modbus records of a source target
FullResults(kind, ip) ==
    IF kind = <<"unknown">> THEN <<[IP |-> "", Protocol |-> PROTOCOL_SNMP]>>
    ELSE IF kind = <<"pdu">> THEN <<SnmpRec(ip)>>
    ELSE <<SnmpRec(ip)>> \o [k \in 1..kind[2] |-> ModbusRec(ip, k)]

\* how a call of ScanDevice ends: its task finishes, the timer of line 62
\* fires first, or the task panics
ScanEndings == {"done", "timeout", "panic"}

\* ScanDevice whose task has no recover handler: the panic ends the process
ScanDeviceNoRecover(kind, ip, how, partial) ==
    IF how = "done"
    THEN [results |-> FullResults(kind, ip),
          err |-> kind[1] = "gateway" /\ kind[2] = 0, how |-> how, fault |-> FALSE]
    ELSE [results |-> SubSeq(FullResults(kind, ip), 1, partial), err |-> TRUE,
          how |-> how, fault |-> how = "panic"]

\* ScanDevice, collect.go 17-66, as runScanProcess sees it: the records and
\* whether an error comes with them.  A source target whose Modbus sweep
\* finds nothing adds a scan error (line 47), so does the recover handler
\* of a panic (lines 25-29), and line 57 turns any scan error into the
\* error returned; on timeout line 63 returns the records appended so far
\* (partial of them) and an error.
ScanDevice(kind, ip, how, partial) ==
    IF how = "done"
    THEN [results |-> FullResults(kind, ip),
          err |-> kind[1] = "gateway" /\ kind[2] = 0, how |-> how, fault |-> FALSE]
    ELSE [results |-> SubSeq(FullResults(kind, ip), 1, partial), err |-> TRUE,
          how |-> how, fault |-> FALSE]

\* a worker whose ScanDevice has not returned
NotReturned == [results |-> <<>>, err |-> FALSE, how |-> "none", fault |-> FALSE]

NumWorkers == Len(snmpAvailableInfos)

\* capacities of lines 101-103
ResultChanCap == NumWorkers * 2
ErrChanCap == NumWorkers

FanStart ==
    /\ devKind \in [IPs -> DeviceKinds]
    /\ ipMaxConcurrent \in 1..MaxSem
    /\ snmpAvailableInfos = <<>>
    /\ fanPc = "start"
    /\ spawnIdx = 1
    /\ wPc = [i \in IPs |-> "none"]
    /\ wRes = [i \in IPs |-> <<>>]
    /\ wTimedOut = [i \in IPs |-> FALSE]
    /\ wReturned = [i \in IPs |-> NotReturned]
    /\ taskRunning = [i \in IPs |-> FALSE]
    /\ ipSem = 0
    /\ wgCount = 0
    /\ resultChan = <<>>
    /\ errChanFan = 0
    /\ fanClosed = FALSE
    /\ fanErrors = 0
    /\ collected = <<>>

\* the variables of the fan-out while another part is checked
FanIdle ==
    /\ devKind = <<>>
    /\ ipMaxConcurrent = 1
    /\ snmpAvailableInfos = <<>>
    /\ fanPc = "start"
    /\ spawnIdx = 1
    /\ wPc = <<>>
    /\ wRes = <<>>
    /\ wTimedOut = <<>>
    /\ wReturned = <<>>
    /\ taskRunning = <<>>
    /\ ipSem = 0
    /\ wgCount = 0
    /\ resultChan = <<>>
    /\ errChanFan = 0
    /\ fanClosed = FALSE
    /\ fanErrors = 0
    /\ collected = <<>>

\* lines 73-97: the SNMP availability check; FilterScanList compares bare
\* IPs with ip_keys and removes nothing, so the cycle goes on when some IP
\* answered SNMP
CheckSnmp ==
    /\ fanPc = "start"
    /\ snmpAvailableInfos' = SnmpAvailableFrom(devKind, 1)
    /\ fanPc' = IF snmpAvailableInfos' = <<>> THEN "ended" ELSE "spawn"
    /\ UNCHANGED <<devKind, ipMaxConcurrent, spawnIdx, wPc, wRes, wTimedOut, wReturned, taskRunning, ipSem,
                   wgCount, resultChan, errChanFan, fanClosed, fanErrors, collected>>

\* lines 106-110: wg.Add, the semaphore send (blocks while it is full), go
Spawn ==
    /\ fanPc = "spawn"
    /\ spawnIdx <= NumWorkers
    /\ ipSem < ipMaxConcurrent
    /\ ipSem' = ipSem + 1
    /\ wgCount' = wgCount + 1
    /\ wPc' = [wPc EXCEPT ![spawnIdx] = "scan"]
    /\ spawnIdx' = spawnIdx + 1
    /\ UNCHANGED <<devKind, ipMaxConcurrent, snmpAvailableInfos, fanPc, wRes,
                   wTimedOut, wReturned, taskRunning, resultChan, errChanFan, fanClosed, fanErrors, collected>>

\* lines 124-137: the loop is over, the closing goroutine is started and
\* the coordinator ranges over errChan
SpawnDone ==
    /\ fanPc = "spawn"
    /\ spawnIdx > NumWorkers
    /\ fanPc' = "collectErr"
    /\ UNCHANGED <<devKind, ipMaxConcurrent, snmpAvailableInfos, spawnIdx, wPc, wRes,
                   wTimedOut, wReturned, taskRunning, ipSem, wgCount, resultChan, errChanFan, fanClosed,
                   fanErrors, collected>>

\* line 114: the worker's ScanDevice call returns
WorkerScan(w) ==
    /\ fanPc # "crashed"
    /\ wPc[w] = "scan"
    /\ LET ip == snmpAvailableInfos[w]
       IN  \E how \in ScanEndings, partial \in 0..Len(FullResults(devKind[ip], IPAddr(ip))) :
              LET r == ScanDevice(devKind[ip], IPAddr(ip), how, partial)
              IN  /\ (how = "done" => partial = 0)
                  /\ wTimedOut' = [wTimedOut EXCEPT ![w] = (how = "timeout")]
                  /\ wReturned' = [wReturned EXCEPT ![w] = r]
                  /\ taskRunning' = [taskRunning EXCEPT ![w] = (how = "timeout")]
                  /\ wRes' = [wRes EXCEPT ![w] = IF r.err THEN <<>> ELSE r.results]
                  /\ wPc' = [wPc EXCEPT ![w] = IF r.err THEN "sendErr" ELSE "sendRes"]
                  /\ fanPc' = IF r.fault THEN "crashed" ELSE fanPc
    /\ UNCHANGED <<devKind, ipMaxConcurrent, snmpAvailableInfos, spawnIdx,
                   ipSem, wgCount, resultChan, errChanFan, fanClosed, fanErrors,
                   collected>>

\* collect.go 23-52, after the timeout of line 62: the task that ScanDevice
\* left behind comes to its end
TaskEnd(w) ==
    /\ fanPc # "crashed"
    /\ taskRunning[w]
    /\ taskRunning' = [taskRunning EXCEPT ![w] = FALSE]
    /\ UNCHANGED <<devKind, ipMaxConcurrent, snmpAvailableInfos, fanPc, spawnIdx, wPc,
                   wRes, wTimedOut, wReturned, ipSem, wgCount, resultChan, errChanFan,
                   fanClosed, fanErrors, collected>>

\* lines 115-118 and the deferred calls of 111-112: the error is sent
\* (blocks while errChan is full), the slot is released, wg.Done
WorkerSendErr(w) ==
    /\ fanPc # "crashed"
    /\ wPc[w] = "sendErr"
    /\ errChanFan < ErrChanCap
    /\ errChanFan' = errChanFan + 1
    /\ ipSem' = ipSem - 1
    /\ wgCount' = wgCount - 1
    /\ wPc' = [wPc EXCEPT ![w] = "done"]
    /\ UNCHANGED <<devKind, ipMaxConcurrent, snmpAvailableInfos, fanPc, spawnIdx,
                   wRes, wTimedOut, wReturned, taskRunning, resultChan, fanClosed, fanErrors, collected>>

\* lines 120-122: one record is sent (blocks while resultChan is full)
WorkerSendResult(w) ==
    /\ fanPc # "crashed"
    /\ wPc[w] = "sendRes"
    /\ wRes[w] # <<>>
    /\ Len(resultChan) < ResultChanCap
    /\ resultChan' = Append(resultChan, Head(wRes[w]))
    /\ wRes' = [wRes EXCEPT ![w] = Tail(wRes[w])]
    /\ UNCHANGED <<devKind, ipMaxConcurrent, snmpAvailableInfos, fanPc, spawnIdx,
                   wPc, wTimedOut, wReturned, taskRunning, ipSem, wgCount, errChanFan, fanClosed, fanErrors,
                   collected>>

\* line 123 and the deferred calls of 111-112: every record is sent
WorkerReturn(w) ==
    /\ fanPc # "crashed"
    /\ wPc[w] = "sendRes"
    /\ wRes[w] = <<>>
    /\ ipSem' = ipSem - 1
    /\ wgCount' = wgCount - 1
    /\ wPc' = [wPc EXCEPT ![w] = "done"]
    /\ UNCHANGED <<devKind, ipMaxConcurrent, snmpAvailableInfos, fanPc, spawnIdx,
                   wRes, wTimedOut, wReturned, taskRunning, resultChan, errChanFan, fanClosed, fanErrors,
                   collected>>

\* lines 127-131: wg.Wait returns and both channels are closed
CloseChannels ==
    /\ fanPc \in {"collectErr", "collectRes"}
    /\ ~fanClosed
    /\ wgCount = 0
    /\ fanClosed' = TRUE
    /\ UNCHANGED <<devKind, ipMaxConcurrent, snmpAvailableInfos, fanPc, spawnIdx,
                   wPc, wRes, wTimedOut, wReturned, taskRunning, ipSem, wgCount, resultChan, errChanFan,
                   fanErrors, collected>>

\* lines 137-140: one error is received
CollectError ==
    /\ fanPc = "collectErr"
    /\ errChanFan > 0
    /\ errChanFan' = errChanFan - 1
    /\ fanErrors' = fanErrors + 1
    /\ UNCHANGED <<devKind, ipMaxConcurrent, snmpAvailableInfos, fanPc, spawnIdx,
                   wPc, wRes, wTimedOut, wReturned, taskRunning, ipSem, wgCount, resultChan, fanClosed,
                   collected>>

\* line 137: errChan is closed and drained, the range loop ends
CollectErrorsEnd ==
    /\ fanPc = "collectErr"
    /\ errChanFan = 0
    /\ fanClosed
    /\ fanPc' = "collectRes"
    /\ UNCHANGED <<devKind, ipMaxConcurrent, snmpAvailableInfos, spawnIdx, wPc, wRes,
                   wTimedOut, wReturned, taskRunning, ipSem, wgCount, resultChan, errChanFan, fanClosed,
                   fanErrors, collected>>

\* line 143, CollectResults (collect.go 69-76): resultChan is closed by now
\* and is read to its end; the cycle goes on to SaveResults
CollectResults ==
    /\ fanPc = "collectRes"
    /\ fanClosed
    /\ collected' = resultChan
    /\ resultChan' = <<>>
    /\ fanPc' = "persist"
    /\ UNCHANGED <<devKind, ipMaxConcurrent, snmpAvailableInfos, spawnIdx, wPc, wRes,
                   wTimedOut, wReturned, taskRunning, ipSem, wgCount, errChanFan, fanClosed, fanErrors>>

-----------------------------------------------------------------------------
(* RunScanRoom, scan_service.go 14-104 *)

Rooms == 1..MaxRooms

\* how a sweep (lines 43-72) can end: it stores its alive IPs, or it reports
\* one error (CIDR, line 46; fping, line 53; no alive IP, line 58)
SweepOutcomes == {"ok", "err"}

RoomStart ==
    /\ ipRanges \in 1..MaxRooms
    /\ roomMaxConcurrent \in 1..MaxSem
    /\ roomMainPc = "spawn"
    /\ roomIdx = 1
    /\ roomPc = [r \in Rooms |-> "none"]
    /\ sweepPc = [r \in Rooms |-> "none"]
    /\ roomSem = 0
    /\ roomWg = 0
    /\ roomErrChan = 0
    /\ roomErrClosed = FALSE
    /\ roomErrors = 0
    /\ sendOnClosed = FALSE
    /\ crashed = FALSE
    /\ allScanActiveIPInfo = {}
    /\ activeIPInfos = {}
    /\ activeIPs = {}
    /\ cyclePc = "rooms"
    /\ roomFailed = {}

\* the variables of RunScanRoom while another part is checked
RoomIdle ==
    /\ ipRanges = 0
    /\ roomMaxConcurrent = 1
    /\ roomMainPc = "spawn"
    /\ roomIdx = 1
    /\ roomPc = <<>>
    /\ sweepPc = <<>>
    /\ roomSem = 0
    /\ roomWg = 0
    /\ roomErrChan = 0
    /\ roomErrClosed = FALSE
    /\ roomErrors = 0
    /\ sendOnClosed = FALSE
    /\ crashed = FALSE
    /\ allScanActiveIPInfo = {}
    /\ activeIPInfos = {}
    /\ activeIPs = {}
    /\ cyclePc = "rooms"
    /\ roomFailed = {}

\* lines 25-35: wg.Add, the semaphore send (blocks while it is full), the
\* room task and its sweep are started
SpawnRoom ==
    /\ ~crashed
    /\ roomMainPc = "spawn"
    /\ roomIdx <= ipRanges
    /\ roomSem < roomMaxConcurrent
    /\ roomSem' = roomSem + 1
    /\ roomWg' = roomWg + 1
    /\ roomPc' = [roomPc EXCEPT ![roomIdx] = "waiting"]
    /\ sweepPc' = [sweepPc EXCEPT ![roomIdx] = "running"]
    /\ roomIdx' = roomIdx + 1
    /\ UNCHANGED <<roomFailed, allScanActiveIPInfo, activeIPInfos, activeIPs, cyclePc, ipRanges,
                   roomMaxConcurrent, roomMainPc, roomErrChan,
                   roomErrClosed, roomErrors, sendOnClosed, crashed>>

\* lines 83-93: the loop is over, the closing goroutine is started and the
\* collector ranges over errChan
SpawnRoomsDone ==
    /\ ~crashed
    /\ roomMainPc = "spawn"
    /\ roomIdx > ipRanges
    /\ roomMainPc' = "collect"
    /\ UNCHANGED <<roomFailed, allScanActiveIPInfo, activeIPInfos, activeIPs, cyclePc, ipRanges,
                   roomMaxConcurrent, roomIdx, roomPc, sweepPc, roomSem,
                   roomWg, roomErrChan, roomErrClosed, roomErrors, sendOnClosed,
                   crashed>>

\* lines 43-72: the sweep ends; without an error done is closed (line 36)
SweepFinish(r) ==
    /\ ~crashed
    /\ sweepPc[r] = "running"
    /\ \E o \in SweepOutcomes :
          /\ sweepPc' = [sweepPc EXCEPT ![r] = IF o = "ok" THEN "done" ELSE "sendErr"]
          /\ allScanActiveIPInfo' =
                 IF o = "ok" THEN allScanActiveIPInfo \cup {r} ELSE allScanActiveIPInfo
    /\ UNCHANGED <<roomFailed, activeIPInfos, activeIPs, cyclePc, ipRanges,
                   roomMaxConcurrent, roomMainPc, roomIdx, roomPc, roomSem,
                   roomWg, roomErrChan, roomErrClosed, roomErrors, sendOnClosed,
                   crashed>>

\* lines 46, 53, 58: the sweep sends its error; the send blocks while errChan
\* is full, and panics when errChan is closed, which the handler of line 37
\* recovers
SweepSendErr(r) ==
    /\ ~crashed
    /\ sweepPc[r] = "sendErr"
    /\ IF roomErrClosed
       THEN /\ sendOnClosed' = TRUE
            /\ sweepPc' = [sweepPc EXCEPT ![r] = "recover"]
            /\ UNCHANGED <<roomErrChan, roomFailed>>
       ELSE /\ roomErrChan < ipRanges
            /\ roomErrChan' = roomErrChan + 1
            /\ roomFailed' = roomFailed \cup {r}
            /\ sweepPc' = [sweepPc EXCEPT ![r] = "done"]
            /\ UNCHANGED sendOnClosed
    /\ UNCHANGED <<allScanActiveIPInfo, activeIPInfos, activeIPs, cyclePc, ipRanges,
                   roomMaxConcurrent, roomMainPc, roomIdx, roomPc, roomSem,
                   roomWg, roomErrClosed, roomErrors, crashed>>

\* line 39: the recover handler sends on errChan; errChan is closed, the
\* panic of this send has no handler left
SweepRecoverSend(r) ==
    /\ ~crashed
    /\ sweepPc[r] = "recover"
    /\ crashed' = TRUE
    /\ sweepPc' = [sweepPc EXCEPT ![r] = "done"]
    /\ UNCHANGED <<roomFailed, allScanActiveIPInfo, activeIPInfos, activeIPs, cyclePc, ipRanges,
                   roomMaxConcurrent, roomMainPc, roomIdx, roomPc, roomSem,
                   roomWg, roomErrChan, roomErrClosed, roomErrors, sendOnClosed>>

\* lines 77-78 and the deferred calls of 30-31: done is closed, the room task
\* returns, releases its slot, wg.Done
RoomDone(r) ==
    /\ ~crashed
    /\ roomPc[r] = "waiting"
    /\ sweepPc[r] = "done"
    /\ roomPc' = [roomPc EXCEPT ![r] = "done"]
    /\ roomSem' = roomSem - 1
    /\ roomWg' = roomWg - 1
    /\ UNCHANGED <<roomFailed, allScanActiveIPInfo, activeIPInfos, activeIPs, cyclePc, ipRanges,
                   roomMaxConcurrent, roomMainPc, roomIdx, sweepPc,
                   roomErrChan, roomErrClosed, roomErrors, sendOnClosed, crashed>>

\* line 79: the timer of the room fires before done is closed
RoomTimeout(r) ==
    /\ ~crashed
    /\ roomPc[r] = "waiting"
    /\ sweepPc[r] # "done"
    /\ roomPc' = [roomPc EXCEPT ![r] = "sendTimeout"]
    /\ UNCHANGED <<roomFailed, allScanActiveIPInfo, activeIPInfos, activeIPs, cyclePc, ipRanges,
                   roomMaxConcurrent, roomMainPc, roomIdx, sweepPc, roomSem,
                   roomWg, roomErrChan, roomErrClosed, roomErrors, sendOnClosed,
                   crashed>>

\* line 80 and the deferred calls of 30-31: the timeout error is sent (blocks
\* while errChan is full), the slot is released, wg.Done
RoomSendTimeout(r) ==
    /\ ~crashed
    /\ roomPc[r] = "sendTimeout"
    /\ roomErrChan < ipRanges
    /\ roomErrChan' = roomErrChan + 1
    /\ roomFailed' = roomFailed \cup {r}
    /\ roomPc' = [roomPc EXCEPT ![r] = "done"]
    /\ roomSem' = roomSem - 1
    /\ roomWg' = roomWg - 1
    /\ UNCHANGED <<allScanActiveIPInfo, activeIPInfos, activeIPs, cyclePc, ipRanges,
                   roomMaxConcurrent, roomMainPc, roomIdx, sweepPc,
                   roomErrClosed, roomErrors, sendOnClosed, crashed>>

\* lines 86-89: wg.Wait returns and errChan is closed
CloseErrChan ==
    /\ ~crashed
    /\ roomMainPc = "collect"
    /\ ~roomErrClosed
    /\ roomWg = 0
    /\ roomErrClosed' = TRUE
    /\ UNCHANGED <<roomFailed, allScanActiveIPInfo, activeIPInfos, activeIPs, cyclePc, ipRanges,
                   roomMaxConcurrent, roomMainPc, roomIdx, roomPc, sweepPc,
                   roomSem, roomWg, roomErrChan, roomErrors, sendOnClosed, crashed>>

\* lines 93-96: one error is received
CollectRoomError ==
    /\ ~crashed
    /\ roomMainPc = "collect"
    /\ roomErrChan > 0
    /\ roomErrChan' = roomErrChan - 1
    /\ roomErrors' = roomErrors + 1
    /\ UNCHANGED <<roomFailed, allScanActiveIPInfo, activeIPInfos, activeIPs, cyclePc, ipRanges,
                   roomMaxConcurrent, roomMainPc, roomIdx, roomPc, sweepPc,
                   roomSem, roomWg, roomErrClosed, sendOnClosed, crashed>>

\* lines 93, 99-103: errChan is closed and drained, RunScanRoom returns
RunScanRoomReturn ==
    /\ ~crashed
    /\ roomMainPc = "collect"
    /\ roomErrChan = 0
    /\ roomErrClosed
    /\ roomMainPc' = "returned"
    /\ activeIPInfos' = allScanActiveIPInfo
    /\ UNCHANGED <<roomFailed, allScanActiveIPInfo, activeIPs, cyclePc, ipRanges,
                   roomMaxConcurrent, roomIdx, roomPc, sweepPc, roomSem,
                   roomWg, roomErrChan, roomErrClosed, roomErrors, sendOnClosed,
                   crashed>>

\* runScanProcess, part_003 55-71: an error of RunScanRoom ends the cycle
\* (lines 56-60), else the alive IPs of the map are passed on to the SNMP
\* check (lines 62-65), and a cycle without one ends (lines 67-71)
AfterRunScanRoom ==
    /\ ~crashed
    /\ roomMainPc = "returned"
    /\ cyclePc = "rooms"
    /\ IF roomErrors > 0
       THEN /\ cyclePc' = "aborted"
            /\ UNCHANGED activeIPs
       ELSE /\ activeIPs' = activeIPInfos
            /\ cyclePc' = IF activeIPInfos = {} THEN "empty" ELSE "identify"
    /\ UNCHANGED <<roomFailed, allScanActiveIPInfo, activeIPInfos, ipRanges, roomMaxConcurrent,
                   roomMainPc, roomIdx, roomPc, sweepPc, roomSem, roomWg, roomErrChan,
                   roomErrClosed, roomErrors, sendOnClosed, crashed>>

-----------------------------------------------------------------------------
(* CalculateCIDR and ExpandRange, utils/fping_ip.go 15-61 and 155-163       *)
(*                                                                         *)
(* A text is a sequence of one-character strings.  A uint32 is its 32 bits, *)
(* most significant first; a net.IP of an IPv4 address is its 4 bytes.      *)

\* the width of uint32
Bits32 == 32
\* the width of a byte
Bits8 == 8
\* the largest byte
MaxByte == 255

RECURSIVE Pow2(_)
Pow2(n) == IF n = 0 THEN 1 ELSE 2 * Pow2(n - 1)

DigitChars == <<"0", "1", "2", "3", "4", "5", "6", "7", "8", "9">>

IsDigit(c) == \E d \in 1..Len(DigitChars) : DigitChars[d] = c

DigitVal(c) == (CHOOSE d \in 1..Len(DigitChars) : DigitChars[d] = c) - 1

\* %d of a number >= 0
RECURSIVE FormatDec(_)
FormatDec(n) ==
    IF n < 10 THEN <<DigitChars[n + 1]>>
    ELSE FormatDec(n \div 10) \o <<DigitChars[(n % 10) + 1]>>

\* the number a text of digits stands for, -1 when it is no such text
RECURSIVE ParseDecFrom(_, _)
ParseDecFrom(t, acc) ==
    IF t = <<>> THEN acc
    ELSE IF ~IsDigit(Head(t)) THEN -1
    ELSE ParseDecFrom(Tail(t), acc * 10 + DigitVal(Head(t)))

ParseDec(t) == IF t = <<>> \/ Len(t) > 3 THEN -1 ELSE ParseDecFrom(t, 0)

\* strings.Split(t, sep) for a one-character separator
RECURSIVE SplitFrom(_, _, _)
SplitFrom(t, sep, cur) ==
    IF t = <<>> THEN <<cur>>
    ELSE IF Head(t) = sep THEN <<cur>> \o SplitFrom(Tail(t), sep, <<>>)
    ELSE SplitFrom(Tail(t), sep, Append(cur, Head(t)))

Split(t, sep) == SplitFrom(t, sep, <<>>)

\* the result of a failed parse
NilIP == <<>>

\* net.ParseIP(text).To4(): four dot-separated decimal fields, each 0..255
\* and without a leading zero; nil for anything else
ParseIP(text) ==
    LET fields == Split(text, ".")
        ok(f) == /\ ParseDec(f) >= 0
                 /\ ParseDec(f) <= MaxByte
                 /\ (Len(f) > 1 => Head(f) # "0")
    IN  IF Len(fields) = 4 /\ \A k \in 1..4 : ok(fields[k])
        THEN [k \in 1..4 |-> ParseDec(fields[k])]
        ELSE NilIP

\* net.IP.String() of an IPv4 address
IPString(ip) ==
    FormatDec(ip[1]) \o <<".">> \o FormatDec(ip[2]) \o <<".">>
        \o FormatDec(ip[3]) \o <<".">> \o FormatDec(ip[4])

\* the bits of a byte and back
ByteBits(b) == [k \in 1..Bits8 |-> (b \div Pow2(Bits8 - k)) % 2]

RECURSIVE BitsByte(_)
BitsByte(bs) ==
    IF bs = <<>> THEN 0 ELSE 2 * BitsByte(SubSeq(bs, 1, Len(bs) - 1)) + bs[Len(bs)]

\* ipToUint32, lines 156-158
ipToUint32(ip) == ByteBits(ip[1]) \o ByteBits(ip[2]) \o ByteBits(ip[3]) \o ByteBits(ip[4])

\* uint32ToIP, lines 161-163
uint32ToIP(n) == [k \in 1..4 |-> BitsByte(SubSeq(n, Bits8 * (k - 1) + 1, Bits8 * k))]

\* a >= b on uint32, where the code has a > b
Ge32(a, b) ==
    \A k \in 1..Bits32 : a[k] < b[k] => \E j \in 1..(k - 1) : a[j] > b[j]

\* a > b on uint32
Gt32(a, b) ==
    \E k \in 1..Bits32 : a[k] > b[k] /\ \A j \in 1..(k - 1) : a[j] = b[j]

\* a ^ b and a & b on uint32
Xor32(a, b) == [k \in 1..Bits32 |-> (a[k] + b[k]) % 2]
And32(a, b) == [k \in 1..Bits32 |-> a[k] * b[k]]

\* bits.Len32
Len32(x) ==
    IF \A k \in 1..Bits32 : x[k] = 0 THEN 0
    ELSE Bits32 + 1 - (CHOOSE k \in 1..Bits32 : x[k] = 1 /\ \A j \in 1..(k - 1) : x[j] = 0)

\* x << n on uint32: the bits shifted out are lost, a shift by 32 gives 0
Shl32(x, n) == [k \in 1..Bits32 |-> IF k + n <= Bits32 THEN x[k + n] ELSE 0]

\* ^uint32(0)
AllOnes32 == [k \in 1..Bits32 |-> 1]

\* x + 1 on uint32: wraps to 0 after the largest value
Inc32(x) ==
    [k \in 1..Bits32 |->
        IF \A j \in (k + 1)..Bits32 : x[j] = 1 THEN 1 - x[k] ELSE x[k]]

\* the error messages of lines 20 and 27 (46 and 53), by their fixed part
NoError == "nil"
ErrInvalidIPv4 == "invalid IPv4"
ErrStartAfterEnd == "start IP greater than end IP"

\* CalculateCIDR with the start address taken as the network address
CalculateCIDRNoMask(startText, endText) ==
    LET start == ParseIP(startText)
        end == ParseIP(endText)
    IN  IF start = NilIP \/ end = NilIP
        THEN [cidr |-> <<>>, err |-> ErrInvalidIPv4]
        ELSE LET startInt == ipToUint32(start)
                 endInt == ipToUint32(end)
             IN  IF Gt32(startInt, endInt)
                 THEN [cidr |-> <<>>, err |-> ErrStartAfterEnd]
                 ELSE LET maskLen == Bits32 - Len32(Xor32(startInt, endInt))
                      IN  [cidr |-> IPString(start) \o <<"/">> \o FormatDec(maskLen),
                           err |-> NoError]

\* CalculateCIDR, lines 15-38: the text of "%s/%d" and the error
CalculateCIDR(startText, endText) ==
    LET start == ParseIP(startText)
        end == ParseIP(endText)
    IN  IF start = NilIP \/ end = NilIP
        THEN [cidr |-> <<>>, err |-> ErrInvalidIPv4]
        ELSE LET startInt == ipToUint32(start)
                 endInt == ipToUint32(end)
             IN  IF Gt32(startInt, endInt)
                 THEN [cidr |-> <<>>, err |-> ErrStartAfterEnd]
                 ELSE LET diff == Xor32(startInt, endInt)
                          maskLen == Bits32 - Len32(diff)
                          network == And32(startInt, Shl32(AllOnes32, Bits32 - maskLen))
                          networkIP == uint32ToIP(network)
                      IN  [cidr |-> IPString(networkIP) \o <<"/">> \o FormatDec(maskLen),
                           err |-> NoError]

\* the addresses the inputs are drawn from
AddrBytes ==
    { <<0, 0, 0, 0>>, <<0, 0, 0, 1>>, <<10, 0, 0, 1>>, <<10, 0, 0, 3>>,
      <<10, 0, 0, 6>>,
      <<127, 255, 255, 255>>, <<128, 0, 0, 0>>, <<172, 5, 0, 1>>, <<172, 5, 7, 254>>,
      <<255, 255, 255, 254>>, <<255, 255, 255, 255>> }

\* texts that are no IPv4 address
BadAddrTexts ==
    { <<>>,
      <<"1", "0", ".", "0", ".", "1">>,
      <<"1", "0", ".", "0", ".", "0", ".", "2", "5", "6">>,
      <<"1", "0", ".", "0", ".", "x", ".", "1">> }

AddrTexts == {IPString(b) : b \in AddrBytes} \cup BadAddrTexts

NoCidr == [cidr |-> <<>>, err |-> NoError]

AddrStart ==
    /\ startIP \in AddrTexts
    /\ endIP \in AddrTexts
    /\ addrPc = "input"
    /\ cidrOut = NoCidr
    /\ expI = <<>>
    /\ ips = <<>>
    /\ expErr = NoError
    /\ rangeActiveIPs = {}

\* the variables of the address helpers while another part is checked
AddrIdle ==
    /\ startIP = <<>>
    /\ endIP = <<>>
    /\ addrPc = "input"
    /\ cidrOut = NoCidr
    /\ expI = <<>>
    /\ ips = <<>>
    /\ expErr = NoError
    /\ rangeActiveIPs = {}

\* a call of CalculateCIDR on the two texts
CallCalculateCIDR ==
    /\ addrPc = "input"
    /\ cidrOut' = CalculateCIDR(startIP, endIP)
    /\ addrPc' = "cidr"
    /\ UNCHANGED <<startIP, endIP, expI, ips, expErr, rangeActiveIPs>>

\* ExpandRange, lines 41-56: the checks, and the loop variable is set
ExpandRangeEnter ==
    /\ addrPc = "input"
    /\ LET start == ParseIP(startIP)
           end == ParseIP(endIP)
       IN  IF start = NilIP \/ end = NilIP
           THEN /\ expErr' = ErrInvalidIPv4
                /\ addrPc' = "expanded"
                /\ UNCHANGED expI
           ELSE IF Gt32(ipToUint32(start), ipToUint32(end))
           THEN /\ expErr' = ErrStartAfterEnd
                /\ addrPc' = "expanded"
                /\ UNCHANGED expI
           ELSE /\ expI' = ipToUint32(start)
                /\ addrPc' = "loop"
                /\ UNCHANGED expErr
    /\ UNCHANGED <<startIP, endIP, cidrOut, ips, rangeActiveIPs>>

\* lines 57-59: one turn of the loop, i <= endInt holds
ExpandRangeLoop ==
    /\ addrPc = "loop"
    /\ Len(ips) < MaxExpand
    /\ ~Gt32(expI, ipToUint32(ParseIP(endIP)))
    /\ ips' = Append(ips, IPString(uint32ToIP(expI)))
    /\ expI' = Inc32(expI)
    /\ UNCHANGED <<startIP, endIP, addrPc, cidrOut, expErr, rangeActiveIPs>>

\* lines 57 and 60: i > endInt, the list is returned
ExpandRangeReturn ==
    /\ addrPc = "loop"
    /\ Gt32(expI, ipToUint32(ParseIP(endIP)))
    /\ addrPc' = "expanded"
    /\ UNCHANGED <<startIP, endIP, cidrOut, expI, ips, expErr, rangeActiveIPs>>

\* the addresses "fping -g cidr" probes (fping_ip.go 66-73): those of the
\* block of the CIDR text, without its network and broadcast addresses when
\* the block has more than two addresses
CidrBlock(cidr) ==
    LET parts == Split(cidr, "/")
        network == ParseIP(parts[1])
        maskLen == ParseDec(parts[2])
        hostBits(a) == SubSeq(ipToUint32(a), maskLen + 1, Bits32)
    IN  { a \in AddrBytes :
            /\ SubSeq(ipToUint32(a), 1, maskLen) = SubSeq(ipToUint32(network), 1, maskLen)
            /\ maskLen < Bits32 - 1 =>
                  /\ \E k \in 1..(Bits32 - maskLen) : hostBits(a)[k] = 1
                  /\ \E k \in 1..(Bits32 - maskLen) : hostBits(a)[k] = 0 }

\* the task of one room, scan_service.go 43-72, for the room whose range is
\* [startIP, endIP]: ExecuteFping sweeps the CIDR of line 44 and every
\* address that answered is stored under the room (lines 63-70); no alive
\* address is the error return of lines 57-60
RoomStoreActive ==
    /\ addrPc = "cidr"
    /\ cidrOut.err = NoError
    /\ \E alive \in SUBSET CidrBlock(cidrOut.cidr) :
          /\ alive # {}
          /\ rangeActiveIPs' = {IPString(a) : a \in alive}
    /\ addrPc' = "stored"
    /\ UNCHANGED <<startIP, endIP, cidrOut, expI, ips, expErr>>

-----------------------------------------------------------------------------
(* getStringValue and parseUptimeToSeconds, collect.go 306-349 *)

\* the unit names of lines 39-46
UnitDays == <<"d", "a", "y", "s">>
UnitHours == <<"h", "o", "u", "r", "s">>
UnitMinutes == <<"m", "i", "n", "u", "t", "e", "s">>
UnitSeconds == <<"s", "e", "c", "o", "n", "d", "s">>

\* the factors of lines 40, 42, 44
SecondsPerDay == 86400
SecondsPerHour == 3600
SecondsPerMinute == 60

\* strings.Trim(t, cutset): the leading and trailing characters of cutset go
RECURSIVE TrimLeft(_, _)
TrimLeft(t, cutset) ==
    IF t # <<>> /\ Head(t) \in cutset THEN TrimLeft(Tail(t), cutset) ELSE t

RECURSIVE TrimRight(_, _)
TrimRight(t, cutset) ==
    IF t # <<>> /\ t[Len(t)] \in cutset
    THEN TrimRight(SubSeq(t, 1, Len(t) - 1), cutset) ELSE t

Trim(t, cutset) == TrimRight(TrimLeft(t, cutset), cutset)

\* the value of a text of digits
RECURSIVE DigitsValue(_, _)
DigitsValue(t, acc) ==
    IF t = <<>> THEN acc ELSE DigitsValue(Tail(t), acc * 10 + DigitVal(Head(t)))

\* strconv.ParseInt(t, 10, 64): an optional sign, then one digit or more
ParseInt(t) ==
    LET signed == t # <<>> /\ Head(t) \in {"+", "-"}
        digits == IF signed THEN Tail(t) ELSE t
    IN  IF digits = <<>> \/ \E k \in 1..Len(digits) : ~IsDigit(digits[k])
        THEN [value |-> 0, err |-> TRUE]
        ELSE [value |-> IF signed /\ Head(t) = "-"
                        THEN 0 - DigitsValue(digits, 0) ELSE DigitsValue(digits, 0),
              err |-> FALSE]

\* getStringValue, lines 306-313: "" for a missing key or a value that is
\* no string
getStringValue(field) == IF field.kind = "string" THEN field.text ELSE <<>>

\* parseUptimeToSeconds, lines 316-349
parseUptimeToSeconds(uptimeStr) ==
    IF uptimeStr = <<>> THEN 0
    ELSE LET parts == Split(Trim(uptimeStr, {"(", ")"}), " ")
         IN  IF Len(parts) # 2 THEN 0
             ELSE LET n == ParseInt(parts[1])
                  IN  IF n.err THEN 0
                      ELSE IF parts[2] = UnitDays THEN n.value * 24 * 60 * 60
                      ELSE IF parts[2] = UnitHours THEN n.value * 60 * 60
                      ELSE IF parts[2] = UnitMinutes THEN n.value * 60
                      ELSE IF parts[2] = UnitSeconds THEN n.value
                      ELSE 0

\* the texts a device can send as its uptime: an opening part, a number
\* part, a blank, a unit part, a closing part
UptimeOpenings == {<<>>, <<"(">>}
UptimeNumbers == {<<"3">>, <<"4", "5">>, <<"0">>, <<"-", "3">>, <<"x">>, <<>>}
UptimeUnits == {UnitDays, UnitHours, UnitMinutes, UnitSeconds, <<"d", "a", "y">>, <<>>}
UptimeClosings == {<<>>, <<")">>}

UptimeTexts ==
    {o \o n \o <<" ">> \o u \o c :
        o \in UptimeOpenings, n \in UptimeNumbers, u \in UptimeUnits, c \in UptimeClosings}
    \cup { <<>>,
           <<"(", "3", "d", "a", "y", "s", ")">>,
           <<"(", "3", " ", " ", "d", "a", "y", "s", ")">>,
           <<"(", "3", " ", "d", "a", "y", "s", " ", "2", ")">> }

\* the uptime entry of a detail result
UptimeFields ==
    {[kind |-> "missing", text |-> <<>>], [kind |-> "number", text |-> <<>>]}
    \cup {[kind |-> "string", text |-> t] : t \in UptimeTexts}

UptimeStart ==
    /\ uptimeField \in UptimeFields
    /\ uptimePc = "input"
    /\ Uptime = 0

\* the variables of the uptime parser while another part is checked
UptimeIdle ==
    /\ uptimeField = [kind |-> "missing", text |-> <<>>]
    /\ uptimePc = "input"
    /\ Uptime = 0

\* collect.go 158 (and 297): the uptime of a record is set
SetUptime ==
    /\ uptimePc = "input"
    /\ Uptime' = parseUptimeToSeconds(getStringValue(uptimeField))
    /\ uptimePc' = "parsed"
    /\ UNCHANGED uptimeField

-----------------------------------------------------------------------------
(* ExecuteFping, utils/fping_ip.go 64-98, and the sweep of RunScanRoom,     *)
(* scan_service.go 50-72                                                   *)

\* strings.TrimSpace
TrimSpace(t) == Trim(t, {" "})

\* the hosts of the swept block
FpingHosts == {IPString(<<10, 1, 1, 1>>), IPString(<<10, 1, 1, 2>>)}

\* lines fping -C -q prints: a host with a round-trip time, a host without
\* an answer, and a line that is no host line
AliveLine(h) == h \o <<" ", ":", " ", "0", ".", "5">>
DeadLine(h) == h \o <<" ", ":", " ", "-">>
NoiseLine == <<"I", "C", "M", "P", " ", "e", "r", "r", "o", "r">>

FpingLines == {AliveLine(h) : h \in FpingHosts} \cup {DeadLine(h) : h \in FpingHosts}
                 \cup {NoiseLine}

\* what cmd.CombinedOutput gives: the output of fping, or nothing when the
\* command could not be started
FpingRuns ==
    {[invoked |-> FALSE, output |-> <<>>]}
    \cup {[invoked |-> TRUE, output |-> o] : o \in BSeq(FpingLines, MaxLines)}

\* lines 84-95: the hosts of the lines "host : times" without a "-"
RECURSIVE ActiveIPsOf(_)
ActiveIPsOf(output) ==
    IF output = <<>> THEN <<>>
    ELSE LET parts == Split(Head(output), ":")
         IN  (IF Len(parts) # 2 \/ Contains(parts[2], <<"-">>)
              THEN <<>> ELSE <<TrimSpace(parts[1])>>)
             \o ActiveIPsOf(Tail(output))

\* ExecuteFping, lines 64-98: the error of CombinedOutput is dropped (line
\* 81) and the error returned is always nil (line 97)
ExecuteFping(run) == [activeIPs |-> ActiveIPsOf(run.output), err |-> FALSE]

NoFpingOut == [activeIPs |-> <<>>, err |-> FALSE]

FpingStart ==
    /\ fpingRun \in FpingRuns
    /\ fpingPc = "input"
    /\ fpingOut = NoFpingOut
    /\ sweepReport = "none"

\* the variables of the prober while another part is checked
FpingIdle ==
    /\ fpingRun = [invoked |-> FALSE, output |-> <<>>]
    /\ fpingPc = "input"
    /\ fpingOut = NoFpingOut
    /\ sweepReport = "none"

\* scan_service.go 51: the sweep calls ExecuteFping
CallExecuteFping ==
    /\ fpingPc = "input"
    /\ fpingOut' = ExecuteFping(fpingRun)
    /\ fpingPc' = "returned"
    /\ UNCHANGED <<fpingRun, sweepReport>>

\* scan_service.go 52-72: the sweep reports an fping failure, a room with no
\* alive IP, or stores the alive IPs
SweepReport ==
    /\ fpingPc = "returned"
    /\ sweepReport' = IF fpingOut.err THEN "fping failed"
                      ELSE IF Len(fpingOut.activeIPs) = 0 THEN "no alive IP"
                      ELSE "stored"
    /\ fpingPc' = "reported"
    /\ UNCHANGED <<fpingRun, fpingOut>>

-----------------------------------------------------------------------------
(* The temporary scan-interval override: global/scan_task.go 81-99 and      *)
(* 144-248, and the handlers of services/scan_api.go 47-101                *)

\* config.Scanner.ScanInterval
DefaultScanInterval == 300

RoomNames == {"R1", "R2"}

\* the fields of a request: room, interval (seconds), duration (minutes)
RequestRooms == RoomNames \cup {""}
RequestIntervals == {0, 30, 600}
RequestDurations == {0, 1, 2}

\* a room without an entry in roomSchedules
NoSchedule == [exists |-> FALSE, DefaultInterval |-> 0, TemporaryTasks |-> <<>>]

\* NewRoomScanSchedule, lines 152-157
NewRoomScanSchedule(defaultInterval) ==
    [exists |-> TRUE, DefaultInterval |-> defaultInterval, TemporaryTasks |-> <<>>]

\* RoomScanSchedule.AddTemporaryTask, lines 160-186: the active task of the
\* room is replaced, else the task is appended
AddTemporaryTask(schedule, room, interval, duration) ==
    LET task == [Room |-> room, Interval |-> interval, StartTime |-> now,
                 EndTime |-> now + duration, IsActive |-> TRUE]
        tasks == schedule.TemporaryTasks
        hits == {i \in 1..Len(tasks) : tasks[i].Room = room /\ tasks[i].IsActive}
    IN  IF hits # {}
        THEN [schedule EXCEPT !.TemporaryTasks =
                 [tasks EXCEPT ![CHOOSE i \in hits : \A k \in hits : i <= k] = task]]
        ELSE [schedule EXCEPT !.TemporaryTasks = Append(tasks, task)]

\* RoomScanSchedule.GetRoomInterval, lines 189-206: the interval of the first
\* active task of the room that has not ended, else the default; the
\* IsActive it clears is the one of the loop's copy
GetRoomInterval(schedule, room) ==
    LET tasks == schedule.TemporaryTasks
        hits == {i \in 1..Len(tasks) :
                    tasks[i].Room = room /\ tasks[i].IsActive /\ ~(now > tasks[i].EndTime)}
    IN  IF hits # {}
        THEN tasks[CHOOSE i \in hits : \A k \in hits : i <= k].Interval
        ELSE schedule.DefaultInterval

\* RoomScanSchedule.CleanupExpiredTasks, lines 209-221
RECURSIVE ActiveTasks(_)
ActiveTasks(tasks) ==
    IF tasks = <<>> THEN <<>>
    ELSE (IF Head(tasks).IsActive /\ now < Head(tasks).EndTime
          THEN <<Head(tasks)>> ELSE <<>>) \o ActiveTasks(Tail(tasks))

\* Scanner.AddTemporaryScanTask, lines 224-235: the task is given the
\* configured interval
AddTemporaryScanTask(schedules, roomID, duration) ==
    LET schedule == IF schedules[roomID].exists THEN schedules[roomID]
                    ELSE NewRoomScanSchedule(DefaultScanInterval)
    IN  [schedules EXCEPT ![roomID] =
            AddTemporaryTask(schedule, roomID, DefaultScanInterval, duration)]

\* Scanner.UpdateRoomSchedule, lines 82-89: only a room without a schedule
\* gets one
UpdateRoomSchedule(schedules, room, interval) ==
    IF ~schedules[room].exists
    THEN [schedules EXCEPT ![room] = NewRoomScanSchedule(interval)]
    ELSE schedules

\* Scanner.GetRoomScanInterval, lines 238-248
GetRoomScanInterval(schedules, roomID) ==
    IF ~schedules[roomID].exists THEN DefaultScanInterval
    ELSE GetRoomInterval(schedules[roomID], roomID)

NoPost == [posted |-> FALSE, Interval |-> 0, EndTime |-> 0]
NoReport == [room |-> "", interval |-> 0]

SchedStart ==
    /\ roomSchedules = [r \in RoomNames |-> NoSchedule]
    /\ now = 0
    /\ lastPost = [r \in RoomNames |-> NoPost]
    /\ reported = NoReport

\* the variables of the interval override while another part is checked
SchedIdle ==
    /\ roomSchedules = <<>>
    /\ now = 0
    /\ lastPost = <<>>
    /\ reported = NoReport

\* POST /api/scan/interval, scan_api.go 49-74
PostScanInterval ==
    /\ \E room \in RequestRooms, interval \in RequestIntervals,
          duration \in RequestDurations :
          IF room = "" \/ interval <= 0 \/ duration <= 0
          THEN UNCHANGED <<roomSchedules, lastPost>>
          ELSE /\ roomSchedules' =
                     UpdateRoomSchedule(AddTemporaryScanTask(roomSchedules, room, duration),
                                        room, interval)
               /\ lastPost' = [lastPost EXCEPT ![room] =
                     [posted |-> TRUE, Interval |-> interval, EndTime |-> now + duration]]
    /\ reported' = NoReport
    /\ UNCHANGED now

\* POST /api/scan/interval/get, scan_api.go 77-101
GetScanInterval ==
    /\ \E room \in RoomNames :
          reported' = [room |-> room, interval |-> GetRoomScanInterval(roomSchedules, room)]
    /\ UNCHANGED <<roomSchedules, now, lastPost>>

\* Scanner.CleanupExpiredSchedules, lines 92-99, at the end of a scan cycle
CleanupExpiredSchedules ==
    /\ roomSchedules' =
          [r \in RoomNames |->
              IF roomSchedules[r].exists
              THEN [roomSchedules[r] EXCEPT
                       !.TemporaryTasks = ActiveTasks(roomSchedules[r].TemporaryTasks)]
              ELSE roomSchedules[r]]
    /\ reported' = NoReport
    /\ UNCHANGED <<now, lastPost>>

\* a minute passes
Tick ==
    /\ now < MaxTime
    /\ now' = now + 1
    /\ reported' = NoReport
    /\ UNCHANGED <<roomSchedules, lastPost>>

-----------------------------------------------------------------------------
(* The Modbus sweep: MatchModbusInstances, collect.go 215-303,              *)
(* GetModbusValue and NewModbusClient, modbus.go 13-93, and                *)
(* loadModbusInstanceLib, config.go 251-299                                *)

\* the modes NewModbusClient knows, modbus.go 18-21
SupportedModes == {"RTUOverTCP", "TCP"}

\* the Modbus targets a configuration can hold: name and match signature
TargetA == [Name |-> "meterA", MatchValueContains |-> <<"A">>]
TargetB == [Name |-> "meterB", MatchValueContains |-> <<"B">>]

\* the texts a device returns to the match read
ModbusTexts == {<<"x", "A">>, <<"B", "x">>, <<"x">>}

\* what the match read of one pair meets: the connection fails, the read
\* fails, the payload is empty or all zeros, or a text comes back
ModbusAnswers ==
    {[kind |-> "connfail", text |-> <<>>], [kind |-> "readerr", text |-> <<>>],
     [kind |-> "zero", text |-> <<>>]}
    \cup {[kind |-> "text", text |-> t] : t \in ModbusTexts}

\* the pairs of a configuration
PairsOf(ports, slaves) ==
    {<<ports[i], slaves[j]>> : i \in 1..Len(ports), j \in 1..Len(slaves)}

\* loadModbusInstanceLib, config.go 251-299: Targets gets the Modbus targets
\* once for every port and every slave ID
RECURSIVE Repeat(_, _)
Repeat(seq, n) == IF n = 0 THEN <<>> ELSE seq \o Repeat(seq, n - 1)

loadModbusInstanceLib(ports, slaves, targetConfigs) ==
    Repeat(targetConfigs, Len(ports) * Len(slaves))

\* a GetModbusValue that returns without closing its handler
handlerKeep(n) == n

\* handler.Close(), modbus.go 37 and 53
handlerClose(n) == IF n > 0 THEN n - 1 ELSE 0

\* a sweep that leaves the slave loop at a failed pair
BreakSlave(slave) == Len(mbSlaveID) + 1

\* the continue of collect.go 231-234: the next slave ID
ContinueSlave(slave) == slave + 1

\* collect.go 244-257: the loop over the targets ends after its first turn
\* (line 256), so the text is tested against the first target only
MatchTargets(targets, modelValue, port, slaveID) ==
    IF targets # <<>> /\ Contains(modelValue, targets[1].MatchValueContains)
    THEN <<[IP |-> ProbedIP, Port |-> port, SlaveID |-> slaveID, Model |-> targets[1].Name]>>
    ELSE <<>>

\* collect.go 275-283: the record of a matched pair
ModbusInstance(info) ==
    [IP |-> info.IP, Port |-> info.Port, SlaveID |-> info.SlaveID,
     Protocol |-> PROTOCOL_MODBUS, Model |-> info.Model]

\* the loops of lines 224, 225 and 274: where the sweep goes on
PortLoopNext(pos) ==
    IF pos.port + 1 <= Len(mbPort)
    THEN [pc |-> "match", port |-> pos.port + 1, slave |-> 1, detail |-> 1]
    ELSE [pos EXCEPT !.pc = "returned"]

SlaveLoopNext(pos, slave, infos) ==
    IF slave <= Len(mbSlaveID) THEN [pos EXCEPT !.pc = "match", !.slave = slave]
    ELSE IF Len(infos) = 0 THEN PortLoopNext(pos)
    ELSE [pos EXCEPT !.pc = "detail", !.detail = 1]

DetailLoopNext(pos, infos) ==
    IF pos.detail + 1 <= Len(infos)
    THEN [pos EXCEPT !.pc = "detail", !.detail = pos.detail + 1]
    ELSE PortLoopNext(pos)

\* the pair the sweep is at
PairAt(pos) == <<mbPort[pos.port], mbSlaveID[pos.slave]>>

ModbusPorts == {<<502>>, <<502, 503>>}
ModbusSlaveIDs == {<<1>>, <<1, 2>>, <<1, 257>>}

\* the conversion byte(slaveID) of collect.go 228 and 287
byte(n) == n % (MaxByte + 1)

ModbusStart ==
    /\ mbMode \in {"TCP", "RTU"}
    /\ mbPort \in ModbusPorts
    /\ mbSlaveID \in ModbusSlaveIDs
    /\ mbTargetConfigs \in {<<TargetA>>, <<TargetA, TargetB>>}
    /\ pairAnswer \in
          { f \in [PairsOf(mbPort, mbSlaveID) -> ModbusAnswers] :
              \A p, q \in PairsOf(mbPort, mbSlaveID) :
                 (p[1] = q[1] /\ byte(p[2]) = byte(q[2])) => f[p] = f[q] }
    /\ connSlaveID = 0
    /\ mbPos = [pc |-> "match", port |-> 1, slave |-> 1, detail |-> 1]
    /\ modbusConnInfos = <<>>
    /\ mbResults = <<>>
    /\ openConns = 0
    /\ matchReads = [p \in PairsOf(mbPort, mbSlaveID) |-> 0]

\* the variables of the Modbus sweep while another part is checked
ModbusIdle ==
    /\ mbMode = "TCP"
    /\ mbPort = <<>>
    /\ mbSlaveID = <<>>
    /\ mbTargetConfigs = <<>>
    /\ pairAnswer = <<>>
    /\ connSlaveID = 0
    /\ mbPos = [pc |-> "returned", port |-> 1, slave |-> 1, detail |-> 1]
    /\ modbusConnInfos = <<>>
    /\ mbResults = <<>>
    /\ openConns = 0
    /\ matchReads = <<>>

\* collect.go 226-234 with modbus.go 47-52 and 13-42: GetModbusValue of the
\* match session is called for the pair; with an unknown mode or a failed
\* Connect (the handler is closed, line 37) it returns an error and the
\* sweep continues with the next pair, else the connection is open
MatchConnect ==
    /\ mbPos.pc = "match"
    /\ connSlaveID' = byte(mbSlaveID[mbPos.slave])
    /\ matchReads' = [matchReads EXCEPT ![PairAt(mbPos)] = @ + 1]
    /\ IF mbMode \notin SupportedModes
       THEN /\ mbPos' = SlaveLoopNext(mbPos, ContinueSlave(mbPos.slave), modbusConnInfos)
            /\ UNCHANGED openConns
       ELSE IF pairAnswer[PairAt(mbPos)].kind = "connfail"
       THEN /\ openConns' = handlerClose(openConns)
            /\ mbPos' = SlaveLoopNext(mbPos, ContinueSlave(mbPos.slave), modbusConnInfos)
       ELSE /\ openConns' = openConns + 1
            /\ mbPos' = [mbPos EXCEPT !.pc = "matchRead"]
    /\ UNCHANGED <<mbMode, mbPort, mbSlaveID, mbTargetConfigs, pairAnswer,
                   modbusConnInfos, mbResults>>

\* modbus.go 53-92 and collect.go 231-263: the registers are read, the
\* deferred Close runs; a read error or an empty or all-zero payload is an
\* error of GetModbusValue and the sweep continues, else the text is matched
MatchRead ==
    /\ mbPos.pc = "matchRead"
    /\ openConns' = handlerClose(openConns)
    /\ LET answer == pairAnswer[PairAt(mbPos)]
           pair == PairAt(mbPos)
           targets == loadModbusInstanceLib(mbPort, mbSlaveID, mbTargetConfigs)
       IN  IF answer.kind # "text"
           THEN /\ mbPos' = SlaveLoopNext(mbPos, ContinueSlave(mbPos.slave), modbusConnInfos)
                /\ UNCHANGED modbusConnInfos
           ELSE /\ modbusConnInfos' =
                      modbusConnInfos \o MatchTargets(targets, answer.text, pair[1], pair[2])
                /\ mbPos' = SlaveLoopNext(mbPos, mbPos.slave + 1, modbusConnInfos')
    /\ UNCHANGED <<mbMode, mbPort, mbSlaveID, mbTargetConfigs, pairAnswer, mbResults,
                   matchReads, connSlaveID>>

\* collect.go 285-293 with modbus.go 47-52: GetModbusValue of the detail
\* session is called for the next entry of modbusConnInfos
DetailConnect ==
    /\ mbPos.pc = "detail"
    /\ connSlaveID' = byte(modbusConnInfos[mbPos.detail].SlaveID)
    /\ \E connected \in BOOLEAN :
          IF connected
          THEN /\ openConns' = openConns + 1
               /\ mbPos' = [mbPos EXCEPT !.pc = "detailRead"]
          ELSE /\ openConns' = handlerClose(openConns)
               /\ mbPos' = DetailLoopNext(mbPos, modbusConnInfos)
    /\ UNCHANGED <<mbMode, mbPort, mbSlaveID, mbTargetConfigs, pairAnswer,
                   modbusConnInfos, mbResults, matchReads>>

\* modbus.go 53-92 and collect.go 289-299: the detail registers are read,
\* the deferred Close runs; the record is appended when the read succeeded
DetailRead ==
    /\ mbPos.pc = "detailRead"
    /\ openConns' = handlerClose(openConns)
    /\ \E ok \in BOOLEAN :
          mbResults' = IF ok
                       THEN Append(mbResults, ModbusInstance(modbusConnInfos[mbPos.detail]))
                       ELSE mbResults
    /\ mbPos' = DetailLoopNext(mbPos, modbusConnInfos)
    /\ UNCHANGED <<mbMode, mbPort, mbSlaveID, mbTargetConfigs, pairAnswer,
                   modbusConnInfos, matchReads, connSlaveID>>

-----------------------------------------------------------------------------
(* ScanDevice and its task, step by step: collect.go 17-66, and the worker  *)
(* of runScanProcess that called it, part_003 114-122                      *)

\* the devices that answer SNMP
AnsweringKinds == DeviceKinds \ {<<"nosnmp">>}

NoReturn == [results |-> <<>>, err |-> FALSE, via |-> "none"]

RaceStart ==
    /\ sdKind \in AnsweringKinds
    /\ taskPc = "snmp"
    /\ sdResults = <<>>
    /\ sdScanErrors = 0
    /\ doneClosed = FALSE
    /\ callerPc = "select"
    /\ sdReturned = NoReturn
    /\ cycleOutput = <<>>
    /\ cycleErrors = 0
    /\ taskWrites = {}
    /\ unsyncedReads = {}

\* the variables of the step-by-step ScanDevice while another part is checked
RaceIdle ==
    /\ sdKind = <<"nosnmp">>
    /\ taskPc = "ended"
    /\ sdResults = <<>>
    /\ sdScanErrors = 0
    /\ doneClosed = FALSE
    /\ callerPc = "handled"
    /\ sdReturned = NoReturn
    /\ cycleOutput = <<>>
    /\ cycleErrors = 0
    /\ taskWrites = {}
    /\ unsyncedReads = {}

\* lines 32-37: the SNMP match and the append of its record, or a panic that
\* the handler of lines 25-29 turns into a scan error
TaskSnmp ==
    /\ taskPc = "snmp"
    /\ \E panics \in BOOLEAN :
          IF panics
          THEN /\ sdScanErrors' = sdScanErrors + 1
               /\ taskWrites' = taskWrites \cup {"scanErrors"}
               /\ taskPc' = "closing"
               /\ UNCHANGED sdResults
          ELSE /\ sdResults' = Append(sdResults, Head(FullResults(sdKind, ProbedIP)))
               /\ taskWrites' = taskWrites \cup {"results"}
               /\ taskPc' = IF sdKind[1] = "gateway" THEN "modbus" ELSE "closing"
               /\ UNCHANGED sdScanErrors
    /\ UNCHANGED <<sdKind, doneClosed, callerPc, sdReturned, cycleOutput, cycleErrors,
                   unsyncedReads>>

\* lines 39-50: the Modbus sweep of a source target; its records are
\* appended, or a scan error when it found none, or it panics
TaskModbus ==
    /\ taskPc = "modbus"
    /\ \E panics \in BOOLEAN :
          IF panics \/ sdKind[2] = 0
          THEN /\ sdScanErrors' = sdScanErrors + 1
               /\ taskWrites' = taskWrites \cup {"scanErrors"}
               /\ UNCHANGED sdResults
          ELSE /\ sdResults' = sdResults \o Tail(FullResults(sdKind, ProbedIP))
               /\ taskWrites' = taskWrites \cup {"results"}
               /\ UNCHANGED sdScanErrors
    /\ taskPc' = "closing"
    /\ UNCHANGED <<sdKind, doneClosed, callerPc, sdReturned, cycleOutput, cycleErrors,
                   unsyncedReads>>

\* line 24: the deferred close(done)
TaskClose ==
    /\ taskPc = "closing"
    /\ doneClosed' = TRUE
    /\ taskPc' = "ended"
    /\ UNCHANGED <<sdKind, sdResults, sdScanErrors, callerPc, sdReturned, cycleOutput,
                   cycleErrors, taskWrites, unsyncedReads>>

\* lines 56-61: the receive from done; results and scanErrors are read after it
ReturnOnDone ==
    /\ callerPc = "select"
    /\ doneClosed
    /\ sdReturned' = [results |-> sdResults, err |-> sdScanErrors > 0, via |-> "done"]
    /\ callerPc' = "returned"
    /\ UNCHANGED <<sdKind, taskPc, sdResults, sdScanErrors, doneClosed, cycleOutput,
                   cycleErrors, taskWrites, unsyncedReads>>

\* lines 62-63: the timer fires; results is read with no receive from done
\* before it, so the read may see any of the appends made so far
ReturnOnTimeout ==
    /\ callerPc = "select"
    /\ \E seen \in 0..Len(sdResults) :
          sdReturned' = [results |-> SubSeq(sdResults, 1, seen), err |-> TRUE,
                         via |-> "timeout"]
    /\ unsyncedReads' = unsyncedReads \cup {"results"}
    /\ callerPc' = "returned"
    /\ UNCHANGED <<sdKind, taskPc, sdResults, sdScanErrors, doneClosed, cycleOutput,
                   cycleErrors, taskWrites>>

\* part_003 114-122: the worker sends the error and nothing else, or sends
\* every record
WorkerHandle ==
    /\ callerPc = "returned"
    /\ IF sdReturned.err
       THEN /\ cycleErrors' = cycleErrors + 1
            /\ UNCHANGED cycleOutput
       ELSE /\ cycleOutput' = sdReturned.results
            /\ UNCHANGED cycleErrors
    /\ callerPc' = "handled"
    /\ UNCHANGED <<sdKind, taskPc, sdResults, sdScanErrors, doneClosed, sdReturned,
                   taskWrites, unsyncedReads>>

-----------------------------------------------------------------------------
(* The identity key: FilteredResults, part_002 51-59, and                   *)
(* FilterRegisteredDevices, part_002 202-209                                *)

\* a format without anything between the fields
NoKeySep == <<>>

\* the ":" of the formats "%s:%d" and "%s:%d:%d"
KeySep == <<":">>

\* fmt.Sprintf("%s:%d", ip, port)
SprintfIPPort(ip, port) == ip \o KeySep \o FormatDec(port)

\* fmt.Sprintf("%s:%d:%d", ip, port, slaveID)
SprintfIPPortSlave(ip, port, slaveID) ==
    ip \o KeySep \o FormatDec(port) \o KeySep \o FormatDec(slaveID)

\* part_002 52-59: the default key and the switch on the protocol
FilteredResultsIPKey(result) ==
    IF result.Protocol = PROTOCOL_MODBUS
    THEN SprintfIPPortSlave(result.IP, result.Port, result.SlaveID)
    ELSE IF result.Protocol = PROTOCOL_SNMP
    THEN SprintfIPPort(result.IP, result.Port)
    ELSE SprintfIPPort(result.IP, result.Port)

\* part_002 203-209: the same statements in FilterRegisteredDevices
FilterRegisteredDevicesIPKey(result) ==
    IF result.Protocol = PROTOCOL_MODBUS
    THEN SprintfIPPortSlave(result.IP, result.Port, result.SlaveID)
    ELSE IF result.Protocol = PROTOCOL_SNMP
    THEN SprintfIPPort(result.IP, result.Port)
    ELSE SprintfIPPort(result.IP, result.Port)

\* the addresses, ports and slave IDs of the records
KeyIPs == {IPString(<<10, 0, 0, 1>>), IPString(<<10, 0, 0, 11>>)}
KeyPorts == {1, 16, 161}
KeySlaveIDs == {1, 61}

\* the records of a cycle: an SNMP record has no slave ID
KeyRecords ==
    [IP : KeyIPs, Port : KeyPorts, SlaveID : {0}, Protocol : {PROTOCOL_SNMP}]
    \cup [IP : KeyIPs, Port : KeyPorts, SlaveID : KeySlaveIDs,
          Protocol : {PROTOCOL_MODBUS}]

KeyStart ==
    /\ keyRecs \in KeyRecords \X KeyRecords
    /\ keyPc = "input"
    /\ filteredKeys = <<>>
    /\ registeredKeys = <<>>

\* the variables of the identity key while another part is checked
KeyIdle ==
    /\ keyRecs = <<>>
    /\ keyPc = "input"
    /\ filteredKeys = <<>>
    /\ registeredKeys = <<>>

\* FilteredResults derives the key of every record
KeysInFilteredResults ==
    /\ keyPc \in {"input", "registered"}
    /\ filteredKeys' = [i \in 1..Len(keyRecs) |-> FilteredResultsIPKey(keyRecs[i])]
    /\ keyPc' = IF keyPc = "input" THEN "filtered" ELSE "both"
    /\ UNCHANGED <<keyRecs, registeredKeys>>

\* FilterRegisteredDevices derives the key of every record
KeysInFilterRegisteredDevices ==
    /\ keyPc \in {"input", "filtered"}
    /\ registeredKeys' =
          [i \in 1..Len(keyRecs) |-> FilterRegisteredDevicesIPKey(keyRecs[i])]
    /\ keyPc' = IF keyPc = "input" THEN "registered" ELSE "both"
    /\ UNCHANGED <<keyRecs, filteredKeys>>

-----------------------------------------------------------------------------
(* The scan manager: StartScan, StopScan, runScan and updateScanStatus,     *)
(* scan_manager.go 63-131 and 158-259                                       *)

\* the errors of lines 68 and 116
ErrAlreadyRunning == "already running"
ErrNotRunning == "not running"

\* the alive addresses a scan can have to identify
AliveCounts == 0..MaxAlive

\* updateScanStatus, lines 241-259: completed clears Running
updateScanStatus(running, completed) == IF completed THEN FALSE ELSE running

MgrStart ==
    /\ statusRunning = FALSE
    /\ scanTasks = <<>>
    /\ lastReturn = NoError

\* the variables of the scan manager while another part is checked
MgrIdle ==
    /\ statusRunning = FALSE
    /\ scanTasks = <<>>
    /\ lastReturn = NoError

\* StartScan, lines 63-108, with a configuration that names an IP range:
\* refused while status.Running, else a new context, Running set and a new
\* runScan goroutine, which finds some alive addresses (lines 166-178)
StartScan ==
    /\ Len(scanTasks) < MaxScans
    /\ IF statusRunning
       THEN /\ lastReturn' = ErrAlreadyRunning
            /\ UNCHANGED <<statusRunning, scanTasks>>
       ELSE /\ \E n \in AliveCounts :
                  scanTasks' = Append(scanTasks,
                                      [pc |-> "running", cancelled |-> FALSE, left |-> n])
            /\ statusRunning' = TRUE
            /\ lastReturn' = NoError

\* StopScan, lines 111-131: refused unless status.Running, else the context
\* of the last StartScan is cancelled and Running is cleared at once
StopScan ==
    IF ~statusRunning
    THEN /\ lastReturn' = ErrNotRunning
         /\ UNCHANGED <<statusRunning, scanTasks>>
    ELSE /\ scanTasks' = [scanTasks EXCEPT ![Len(scanTasks)].cancelled = TRUE]
         /\ statusRunning' = FALSE
         /\ lastReturn' = NoError

\* runScan, lines 188-221: the context is not done, one address is
\* identified and updateScanStatus(..., false) is called
RunScanIdentify ==
    \E k \in 1..Len(scanTasks) :
       /\ scanTasks[k].pc = "running"
       /\ scanTasks[k].left > 0
       /\ scanTasks' = [scanTasks EXCEPT ![k].left = @ - 1]
       /\ statusRunning' = updateScanStatus(statusRunning, FALSE)
       /\ UNCHANGED lastReturn

\* runScan, lines 190-193 and 225-228: the task sees its context done and
\* ends with updateScanStatus(..., true)
RunScanCancelled ==
    \E k \in 1..Len(scanTasks) :
       /\ scanTasks[k].pc = "running"
       /\ scanTasks[k].cancelled
       /\ scanTasks' = [scanTasks EXCEPT ![k].pc = "ended"]
       /\ statusRunning' = updateScanStatus(statusRunning, TRUE)
       /\ UNCHANGED lastReturn

\* runScan, lines 235-239: every address was identified, the task ends with
\* updateScanStatus(..., true)
RunScanCompleted ==
    \E k \in 1..Len(scanTasks) :
       /\ scanTasks[k].pc = "running"
       /\ scanTasks[k].left = 0
       /\ scanTasks' = [scanTasks EXCEPT ![k].pc = "ended"]
       /\ statusRunning' = updateScanStatus(statusRunning, TRUE)
       /\ UNCHANGED lastReturn

-----------------------------------------------------------------------------
(* The specification of ScanDevice: one call, for every configuration *)

InitMatch == MatchStart /\ PersistIdle /\ FanIdle /\ RoomIdle /\ AddrIdle /\ UptimeIdle /\ FpingIdle /\ SchedIdle /\ ModbusIdle /\ RaceIdle /\ KeyIdle /\ MgrIdle

NextMatch ==
    \/ MatchSnmpInstances /\ UNCHANGED NotMatch
    \/ DependencySweep /\ UNCHANGED NotMatch
    \/ DependencySkip /\ UNCHANGED NotMatch
    \/ ScanTaskDone /\ UNCHANGED NotMatch

SpecMatch == InitMatch /\ [][NextMatch]_vars

\* the variables of ScanDevice while another part is checked
MatchIdle ==
    /\ Targets = <<>>
    /\ Dependencies = <<>>
    /\ matchResult = <<>>
    /\ snmpScanResult = NoInstance
    /\ detailSession = NoSession
    /\ results = <<>>
    /\ scanErrors = 0
    /\ modbusSweeps = 0
    /\ depIdx = 1
    /\ scanPc = "start"

-----------------------------------------------------------------------------
(* The specification of the persistence: MaxCycles cycles of runScanProcess *)

InitPersist == PersistStart /\ MatchIdle /\ FanIdle /\ RoomIdle /\ AddrIdle /\ UptimeIdle /\ FpingIdle /\ SchedIdle /\ ModbusIdle /\ RaceIdle /\ KeyIdle /\ MgrIdle

NextPersist ==
    \/ InitScanList /\ UNCHANGED NotPersist
    \/ SaveResults /\ UNCHANGED NotPersist
    \/ SaveResultsCrash /\ UNCHANGED NotPersist
    \/ UpdateScanResults /\ UNCHANGED NotPersist

SpecPersist == InitPersist /\ [][NextPersist]_vars

-----------------------------------------------------------------------------
(* The specification of the fan-out: one identification phase *)

InitFan == FanStart /\ MatchIdle /\ PersistIdle /\ RoomIdle /\ AddrIdle /\ UptimeIdle /\ FpingIdle /\ SchedIdle /\ ModbusIdle /\ RaceIdle /\ KeyIdle /\ MgrIdle

NextFan ==
    \/ CheckSnmp /\ UNCHANGED NotFan
    \/ Spawn /\ UNCHANGED NotFan
    \/ SpawnDone /\ UNCHANGED NotFan
    \/ \E w \in IPs : WorkerScan(w) /\ UNCHANGED NotFan
    \/ \E w \in IPs : WorkerSendErr(w) /\ UNCHANGED NotFan
    \/ \E w \in IPs : WorkerSendResult(w) /\ UNCHANGED NotFan
    \/ \E w \in IPs : WorkerReturn(w) /\ UNCHANGED NotFan
    \/ \E w \in IPs : TaskEnd(w) /\ UNCHANGED NotFan
    \/ CloseChannels /\ UNCHANGED NotFan
    \/ CollectError /\ UNCHANGED NotFan
    \/ CollectErrorsEnd /\ UNCHANGED NotFan
    \/ CollectResults /\ UNCHANGED NotFan

SpecFan == InitFan /\ [][NextFan]_vars

-----------------------------------------------------------------------------
(* The specification of RunScanRoom: one liveness phase *)

InitRoom == RoomStart /\ MatchIdle /\ PersistIdle /\ FanIdle /\ AddrIdle /\ UptimeIdle /\ FpingIdle /\ SchedIdle /\ ModbusIdle /\ RaceIdle /\ KeyIdle /\ MgrIdle

NextRoom ==
    \/ SpawnRoom /\ UNCHANGED NotRoom
    \/ SpawnRoomsDone /\ UNCHANGED NotRoom
    \/ \E r \in Rooms : SweepFinish(r) /\ UNCHANGED NotRoom
    \/ \E r \in Rooms : SweepSendErr(r) /\ UNCHANGED NotRoom
    \/ \E r \in Rooms : SweepRecoverSend(r) /\ UNCHANGED NotRoom
    \/ \E r \in Rooms : RoomDone(r) /\ UNCHANGED NotRoom
    \/ \E r \in Rooms : RoomTimeout(r) /\ UNCHANGED NotRoom
    \/ \E r \in Rooms : RoomSendTimeout(r) /\ UNCHANGED NotRoom
    \/ CloseErrChan /\ UNCHANGED NotRoom
    \/ CollectRoomError /\ UNCHANGED NotRoom
    \/ RunScanRoomReturn /\ UNCHANGED NotRoom
    \/ AfterRunScanRoom /\ UNCHANGED NotRoom

SpecRoom == InitRoom /\ [][NextRoom]_vars

-----------------------------------------------------------------------------
(* The specification of the address helpers: one call on every pair of texts *)

InitAddr == AddrStart /\ MatchIdle /\ PersistIdle /\ FanIdle /\ RoomIdle /\ UptimeIdle /\ FpingIdle /\ SchedIdle /\ ModbusIdle /\ RaceIdle /\ KeyIdle /\ MgrIdle

NextAddr ==
    \/ CallCalculateCIDR /\ UNCHANGED NotAddr
    \/ ExpandRangeEnter /\ UNCHANGED NotAddr
    \/ ExpandRangeLoop /\ UNCHANGED NotAddr
    \/ ExpandRangeReturn /\ UNCHANGED NotAddr
    \/ RoomStoreActive /\ UNCHANGED NotAddr

SpecAddr == InitAddr /\ [][NextAddr]_vars

-----------------------------------------------------------------------------
(* The specification of the uptime parser: one call on every uptime entry *)

InitUptime == UptimeStart /\ MatchIdle /\ PersistIdle /\ FanIdle /\ RoomIdle /\ AddrIdle /\ FpingIdle /\ SchedIdle /\ ModbusIdle /\ RaceIdle /\ KeyIdle /\ MgrIdle

NextUptime == SetUptime /\ UNCHANGED NotUptime

SpecUptime == InitUptime /\ [][NextUptime]_vars

-----------------------------------------------------------------------------
(* The specification of the liveness prober: one sweep of one block *)

InitFping == FpingStart /\ MatchIdle /\ PersistIdle /\ FanIdle /\ RoomIdle /\ AddrIdle /\ UptimeIdle /\ SchedIdle /\ ModbusIdle /\ RaceIdle /\ KeyIdle /\ MgrIdle

NextFping ==
    \/ CallExecuteFping /\ UNCHANGED NotFping
    \/ SweepReport /\ UNCHANGED NotFping

SpecFping == InitFping /\ [][NextFping]_vars

-----------------------------------------------------------------------------
(* The specification of the interval override *)

InitSched == SchedStart /\ MatchIdle /\ PersistIdle /\ FanIdle /\ RoomIdle /\ AddrIdle /\ UptimeIdle /\ FpingIdle /\ ModbusIdle /\ RaceIdle /\ KeyIdle /\ MgrIdle

NextSched ==
    \/ PostScanInterval /\ UNCHANGED NotSched
    \/ GetScanInterval /\ UNCHANGED NotSched
    \/ CleanupExpiredSchedules /\ UNCHANGED NotSched
    \/ Tick /\ UNCHANGED NotSched

SpecSched == InitSched /\ [][NextSched]_vars

-----------------------------------------------------------------------------
(* The specification of the Modbus sweep: one call of MatchModbusInstances *)

InitModbus == ModbusStart /\ PersistIdle /\ FanIdle /\ RoomIdle /\ AddrIdle /\ UptimeIdle /\ FpingIdle /\ SchedIdle /\ MatchIdle /\ RaceIdle /\ KeyIdle /\ MgrIdle

NextModbus ==
    \/ MatchConnect /\ UNCHANGED NotModbus
    \/ MatchRead /\ UNCHANGED NotModbus
    \/ DetailConnect /\ UNCHANGED NotModbus
    \/ DetailRead /\ UNCHANGED NotModbus

SpecModbus == InitModbus /\ [][NextModbus]_vars

-----------------------------------------------------------------------------
(* The specification of ScanDevice step by step: one call and its task *)

InitRace == RaceStart /\ PersistIdle /\ FanIdle /\ RoomIdle /\ AddrIdle /\ UptimeIdle /\ FpingIdle /\ SchedIdle /\ ModbusIdle /\ MatchIdle /\ KeyIdle /\ MgrIdle

NextRace ==
    \/ TaskSnmp /\ UNCHANGED NotRace
    \/ TaskModbus /\ UNCHANGED NotRace
    \/ TaskClose /\ UNCHANGED NotRace
    \/ ReturnOnDone /\ UNCHANGED NotRace
    \/ ReturnOnTimeout /\ UNCHANGED NotRace
    \/ WorkerHandle /\ UNCHANGED NotRace

SpecRace == InitRace /\ [][NextRace]_vars

-----------------------------------------------------------------------------
(* The specification of the identity key: both derivations, for every pair *)
(* of records                                                              *)

InitKey == KeyStart /\ PersistIdle /\ FanIdle /\ RoomIdle /\ AddrIdle /\ UptimeIdle /\ FpingIdle /\ SchedIdle /\ ModbusIdle /\ RaceIdle /\ MatchIdle /\ MgrIdle

NextKey ==
    \/ KeysInFilteredResults /\ UNCHANGED NotKey
    \/ KeysInFilterRegisteredDevices /\ UNCHANGED NotKey

SpecKey == InitKey /\ [][NextKey]_vars

-----------------------------------------------------------------------------
(* The specification of the scan manager: MaxScans calls of StartScan,      *)
(* StopScan at any time, the runScan goroutines interleaved                 *)

InitMgr == MgrStart /\ PersistIdle /\ FanIdle /\ RoomIdle /\ AddrIdle /\ UptimeIdle /\ FpingIdle /\ SchedIdle /\ ModbusIdle /\ RaceIdle /\ KeyIdle /\ MatchIdle

NextMgr ==
    \/ StartScan /\ UNCHANGED NotMgr
    \/ StopScan /\ UNCHANGED NotMgr
    \/ RunScanIdentify /\ UNCHANGED NotMgr
    \/ RunScanCancelled /\ UNCHANGED NotMgr
    \/ RunScanCompleted /\ UNCHANGED NotMgr

SpecMgr == InitMgr /\ [][NextMgr]_vars

-----------------------------------------------------------------------------
(* Claims about SNMP matching and the cascade, checked under SpecMatch *)

Min(S) == CHOOSE x \in S : \A y \in S : x <= y

\* the candidates that are non-empty and contain some target's signature
MatchingCandidates ==
    { j \in 1..Len(matchResult) :
        /\ matchResult[j] # <<>>
        /\ \E i \in 1..Len(Targets) :
              Contains(matchResult[j], Targets[i].MatchValueContains) }

\* the targets whose signature candidate j contains
MatchingTargets(j) ==
    { i \in 1..Len(Targets) :
        Contains(matchResult[j], Targets[i].MatchValueContains) }

\* C1: first match wins: once the SNMP matcher has run, if some non-empty
\* candidate contains a signature, the selected target is the FIRST
\* configured target whose signature the first such candidate contains.
C1_FirstMatchWins ==
    (scanPc # "start" /\ MatchingCandidates # {}) =>
        snmpScanResult.TargetName =
            Targets[Min(MatchingTargets(Min(MatchingCandidates)))].Name

\* C2: a Modbus sweep is run by ScanDevice if and only if the SNMP result is
\* a real (non-"unknown") target whose name is a source_target of the
\* dependency table; an "unknown" result never triggers one.
C2_CascadeTrigger ==
    scanPc = "done" =>
        ( (modbusSweeps > 0) <=>
          ( /\ snmpScanResult.TargetName # UNKNOWN_NAME
            /\ \E d \in 1..Len(Dependencies) :
                  Dependencies[d].SourceTarget = snmpScanResult.TargetName ) )

-----------------------------------------------------------------------------
(* Claims about dedup and persistence, checked under SpecPersist *)

IsPrefix(a, b) == Len(a) <= Len(b) /\ SubSeq(b, 1, Len(a)) = a

\* the rows the current cycle appended to a pending file
AppendedRows(startRows, file) ==
    SubSeq(file.rows, Len(startRows) + 1, Len(file.rows))

\* the identity keys of the data rows among rows
DataKeys(rows, header) ==
    LET data == SelectSeq(rows, LAMBDA row : row # header)
    IN  [k \in 1..Len(data) |-> data[k][1]]

\* the identity keys of the data rows this cycle appended, both lists
AppendedKeys ==
    DataKeys(AppendedRows(cycleStartPdu, filePdu), pending_pdu_header)
       \o DataKeys(AppendedRows(cycleStartDev, fileDev), pending_device_header)

\* the identity keys of all data rows of the pending lists
PendingKeys ==
    DataKeys(filePdu.rows, pending_pdu_header)
       \o DataKeys(fileDev.rows, pending_device_header)

\* C3: dedup idempotence: a cycle that persists the same result set as the
\* previous cycle (whose writes all reached the files) appends no row.
C3_DedupIdempotent ==
    (persistPc = "saved" /\ repeated) => AppendedKeys = <<>>

\* C4: identity-key collapse: the rows one persistence cycle appends to the
\* pending lists carry pairwise different identity keys.
C4_KeyCollapse ==
    persistPc = "saved" =>
        \A i, j \in 1..Len(AppendedKeys) :
            i # j => AppendedKeys[i] # AppendedKeys[j]

\* the index a cycle dedups against holds every key of the registry lists
IndexHoldsRegistry ==
    persistPc = "loaded" =>
        \A i \in 1..Len(registry) : SeqContains(ScanIPKeyList, registry[i])

\* C8: registry exclusion: in every cycle, no row of a pending list carries
\* an identity key that appears in a registry list (the index each cycle
\* dedups against would have to hold the registry keys: IndexHoldsRegistry).
C8_RegistryExcluded ==
    \A i \in 1..Len(PendingKeys) : ~SeqContains(registry, PendingKeys[i])

\* the header is the first row of a file that has rows, and no other row
HeaderOnce(file, header) ==
    file.rows # <<>> =>
        /\ file.rows[1] = header
        /\ \A i \in 2..Len(file.rows) : file.rows[i] # header

\* C9: pending files are append-only with exactly one header: each file
\* extends the content it had when the cycle began, and in a file that has
\* rows the header row is the first row and occurs once.
C9_AppendOnlyOneHeader ==
    /\ IsPrefix(cycleStartPdu, filePdu.rows)
    /\ IsPrefix(cycleStartDev, fileDev.rows)
    /\ HeaderOnce(filePdu, pending_pdu_header)
    /\ HeaderOnce(fileDev, pending_device_header)

-----------------------------------------------------------------------------
(* Claims about the per-IP fan-out, checked under SpecFan *)

\* the identification phase is over: the cycle returned early or went on to
\* persistence
FanFinished == fanPc \in {"persist", "ended", "crashed"}

\* C5: the per-IP fan-out never hangs: whatever the number of answering IPs
\* and of records each yields, as long as the phase is not over some step of
\* the coordinator, of a worker or of the closing goroutine can be taken.
C5_FanoutNeverHangs == FanFinished \/ ENABLED NextFan

\* the SNMP records of the cycle output for one address
SnmpRecordsOf(addr) ==
    {i \in 1..Len(collected) :
        collected[i].IP = addr /\ collected[i].Protocol = PROTOCOL_SNMP}

\* the records of the cycle output for one address
RecordsOf(addr) == {i \in 1..Len(collected) : collected[i].IP = addr}

\* the worker that scanned alive IP ip returned without timing out
ScannedInTime(ip) ==
    \E w \in 1..NumWorkers :
        snmpAvailableInfos[w] = ip /\ ~wTimedOut[w] /\ wReturned[w].how = "done"

\* C10: end-to-end record count: when the cycle reaches persistence, its
\* output holds exactly one SNMP record for every alive IP that answers
\* SNMP, matches a target and was scanned within the timeout, and no record
\* for an alive IP that does not answer SNMP.
C10_OneSnmpRecordPerDevice ==
    fanPc = "persist" =>
        \A ip \in IPs :
            /\ (devKind[ip] \notin {<<"nosnmp">>, <<"unknown">>} /\ ScannedInTime(ip))
                  => Cardinality(SnmpRecordsOf(IPAddr(ip))) = 1
            /\ devKind[ip] = <<"nosnmp">> => RecordsOf(IPAddr(ip)) = {}


-----------------------------------------------------------------------------
(* Claims about RunScanRoom, checked under SpecRoom *)

\* C6: a sweep that outlives the timeout of its room cannot crash the
\* process: no send is ever attempted on errChan after it was closed,
\* neither by the body of the sweep nor by its recover handler.
C6_NoSendAfterClose == ~sendOnClosed /\ ~crashed

\* the room tasks that hold a semaphore slot
SlotHolders == {r \in 1..ipRanges : roomPc[r] \in {"waiting", "sendTimeout"}}

\* C7: RunScanRoom always returns: in no reachable state does the spawning
\* loop wait for a semaphore slot while every holder of a slot is blocked
\* sending its timeout error on the full errChan, the collector not started.
C7_SpawnNeverStuck ==
    ~ /\ roomMainPc = "spawn"
      /\ roomIdx <= ipRanges
      /\ roomSem = roomMaxConcurrent
      /\ roomErrChan = ipRanges
      /\ \A r \in SlotHolders : roomPc[r] = "sendTimeout"


-----------------------------------------------------------------------------
(* Claims about CalculateCIDR and ExpandRange, checked under SpecAddr *)

\* the texts that are an IPv4 address, and the address of such a text
ValidAddr(t) == \E b \in AddrBytes : IPString(b) = t
BytesOf(t) == CHOOSE b \in AddrBytes : IPString(b) = t

\* a < b, a <= b for addresses as unsigned 32-bit numbers, byte by byte
BytesLt(a, b) == \E k \in 1..4 : a[k] < b[k] /\ \A j \in 1..(k - 1) : a[j] = b[j]
BytesLe(a, b) == a = b \/ BytesLt(a, b)

\* both texts are addresses and start <= end
ValidRange == ValidAddr(startIP) /\ ValidAddr(endIP) /\ BytesLe(BytesOf(startIP), BytesOf(endIP))

\* the first p bits of an address
PrefixBits(b, p) == SubSeq(ByteBits(b[1]) \o ByteBits(b[2]) \o ByteBits(b[3]) \o ByteBits(b[4]), 1, p)

\* the parts of a CIDR text: the network address and the prefix length
CidrNetwork(c) == ParseIP(Split(c, "/")[1])
CidrPrefix(c) == ParseDec(Split(c, "/")[2])

\* C11: CoveringCIDR correctness: for valid start <= end CalculateCIDR returns
\* network/prefix whose block contains every address of [start, end], whose
\* network address has all host bits zero, and whose prefix is the longest
\* for which one block contains both endpoints.
C11_CoveringCIDR ==
    (addrPc = "cidr" /\ ValidRange) =>
        /\ cidrOut.err = NoError
        /\ Len(Split(cidrOut.cidr, "/")) = 2
        /\ CidrNetwork(cidrOut.cidr) # NilIP
        /\ LET net == CidrNetwork(cidrOut.cidr)
               p == CidrPrefix(cidrOut.cidr)
               s == BytesOf(startIP)
               e == BytesOf(endIP)
           IN  /\ p \in 0..Bits32
               /\ \A a \in AddrBytes :
                     (BytesLe(s, a) /\ BytesLe(a, e)) => PrefixBits(a, p) = PrefixBits(net, p)
               /\ \A k \in (p + 1)..Bits32 : PrefixBits(net, Bits32)[k] = 0
               /\ p < Bits32 => PrefixBits(s, p + 1) # PrefixBits(e, p + 1)

\* 172.5.0.1..172.5.7.254 was given 172.5.0.0/21
C11_Witness ==
    /\ addrPc = "cidr"
    /\ startIP = IPString(<<172, 5, 0, 1>>)
    /\ endIP = IPString(<<172, 5, 7, 254>>)
    /\ cidrOut.cidr = IPString(<<172, 5, 0, 0>>) \o <<"/", "2", "1">>

\* the address after b, <<>> after the last one
Succ(b) ==
    IF b = <<>> THEN <<>>
    ELSE IF b[4] < MaxByte THEN <<b[1], b[2], b[3], b[4] + 1>>
    ELSE IF b[3] < MaxByte THEN <<b[1], b[2], b[3] + 1, 0>>
    ELSE IF b[2] < MaxByte THEN <<b[1], b[2] + 1, 0, 0>>
    ELSE IF b[1] < MaxByte THEN <<b[1] + 1, 0, 0, 0>>
    ELSE <<>>

\* the k-th address of the range that starts at b
RECURSIVE NthFrom(_, _)
NthFrom(b, k) == IF k = 1 THEN b ELSE NthFrom(Succ(b), k - 1)

\* the number of addresses from a to b, counted up to n
RECURSIVE CountUpTo(_, _, _)
CountUpTo(a, b, n) ==
    IF n = 0 \/ a = <<>> \/ BytesLt(b, a) THEN 0 ELSE 1 + CountUpTo(Succ(a), b, n - 1)

\* C12: ExpandRange correctness: for valid start <= end the list holds
\* exactly start, start+1, ..., end in ascending order, each once; for
\* start > end an error and no list.
C12_ExpandRangeExact ==
    /\ ValidRange =>
          /\ \A k \in 1..Len(ips) :
                /\ NthFrom(BytesOf(startIP), k) # <<>>
                /\ BytesLe(NthFrom(BytesOf(startIP), k), BytesOf(endIP))
                /\ ips[k] = IPString(NthFrom(BytesOf(startIP), k))
          /\ addrPc = "expanded" =>
                /\ expErr = NoError
                /\ Len(ips) = CountUpTo(BytesOf(startIP), BytesOf(endIP), MaxExpand + 1)
    /\ (ValidAddr(startIP) /\ ValidAddr(endIP) /\ addrPc = "expanded"
            /\ BytesLt(BytesOf(endIP), BytesOf(startIP)))
          => (expErr # NoError /\ ips = <<>>)

\* C14: CoveringCIDR error outcomes: an invalid-address error if and only if
\* a text is no IPv4 address, a range-order error if and only if both are
\* and start > end; with an error no CIDR text; the two errors differ.
C14_CidrErrors ==
    addrPc = "cidr" =>
        /\ cidrOut.err = ErrInvalidIPv4 <=> (~ValidAddr(startIP) \/ ~ValidAddr(endIP))
        /\ cidrOut.err = ErrStartAfterEnd <=>
              (ValidAddr(startIP) /\ ValidAddr(endIP)
                 /\ BytesLt(BytesOf(endIP), BytesOf(startIP)))
        /\ cidrOut.err # NoError => cidrOut.cidr = <<>>
        /\ ErrInvalidIPv4 # ErrStartAfterEnd

\* both errors were returned: here the one for a start after the end
C14_Witness ==
    /\ addrPc = "cidr"
    /\ cidrOut.err = ErrStartAfterEnd
    /\ startIP = IPString(<<10, 0, 0, 3>>)
    /\ endIP = IPString(<<10, 0, 0, 1>>)


\* C36: every address stored in the map under a room lies within the room's
\* configured [start, end] range
C36_RoomAttributionInRange ==
    addrPc = "stored" =>
        \A t \in rangeActiveIPs :
           /\ BytesLe(BytesOf(startIP), BytesOf(t))
           /\ BytesLe(BytesOf(t), BytesOf(endIP))

-----------------------------------------------------------------------------
(* Claims about the uptime parser, checked under SpecUptime *)

\* the numbers of the well-formed texts
UptimeCounts == {0, 3, 45}

\* the well-formed text "(<n> <unit>)"
WellFormedUptime(n, unit) == <<"(">> \o FormatDec(n) \o <<" ">> \o unit \o <<")">>

\* the seconds of one unit
UnitSeconds1(unit) ==
    IF unit = UnitDays THEN SecondsPerDay
    ELSE IF unit = UnitHours THEN SecondsPerHour
    ELSE IF unit = UnitMinutes THEN SecondsPerMinute
    ELSE 1

UptimeUnitNames == {UnitDays, UnitHours, UnitMinutes, UnitSeconds}

\* C13: uptime normalization is total: n*86400, n*3600, n*60 or n for a
\* well-formed "(<n> days|hours|minutes|seconds)" and 0 for every other
\* input (empty, missing, wrong number of fields, non-numeric n, unknown
\* unit).
C13_UptimeTotal ==
    uptimePc = "parsed" =>
        IF uptimeField.kind = "string"
              /\ \E n \in UptimeCounts, u \in UptimeUnitNames :
                    uptimeField.text = WellFormedUptime(n, u)
        THEN \E n \in UptimeCounts, u \in UptimeUnitNames :
                /\ uptimeField.text = WellFormedUptime(n, u)
                /\ Uptime = n * UnitSeconds1(u)
        ELSE Uptime = 0


-----------------------------------------------------------------------------
(* Claims about the liveness prober, checked under SpecFping *)

\* the run printed a line of a host with a round-trip time
SomeHostAlive ==
    \E k \in 1..Len(fpingRun.output), h \in FpingHosts : fpingRun.output[k] = AliveLine(h)

\* C15: liveness prober error contract: an empty list and no error when the
\* sweep finds no alive host; a hard error exactly when fping could not be
\* invoked; a failed invocation is never reported as "zero hosts alive".
C15_FpingErrorContract ==
    /\ fpingPc \in {"returned", "reported"} =>
          /\ (fpingRun.invoked /\ ~SomeHostAlive)
                => (fpingOut.activeIPs = <<>> /\ ~fpingOut.err)
          /\ fpingOut.err <=> ~fpingRun.invoked
    /\ (fpingPc = "reported" /\ ~fpingRun.invoked) => sweepReport # "no alive IP"


-----------------------------------------------------------------------------
(* Claims about the interval override, checked under SpecSched *)

\* C16: temporary scan-interval override: after an accepted request for room
\* R with interval X > 0 and duration D > 0 the interval reported for R is X
\* until D has elapsed and the configured default afterwards; the other
\* rooms keep their interval.
C16_TemporaryOverride ==
    reported # NoReport =>
        LET p == lastPost[reported.room]
        IN  /\ (p.posted /\ now < p.EndTime) => reported.interval = p.Interval
            /\ (~p.posted \/ now > p.EndTime) => reported.interval = DefaultScanInterval


-----------------------------------------------------------------------------
(* Claims about the errors of one IP, checked under SpecFan *)

\* the records of the cycle output
CollectedSet == {collected[i] : i \in 1..Len(collected)}

\* C18: per-IP protocol errors stay inside the orchestrator: when the Modbus
\* sweep of a gateway finds no device, the orchestration of the IP is not
\* reported as failed and the gateway's SNMP record is in the collected
\* results of the cycle.
C18_EmptySweepKeepsGateway ==
    \A w \in 1..NumWorkers :
        LET ip == snmpAvailableInfos[w]
        IN  (devKind[ip] = <<"gateway", 0>> /\ wReturned[w].how = "done") =>
                /\ ~wReturned[w].err
                /\ fanPc = "persist" => SnmpRec(IPAddr(ip)) \in CollectedSet

\* C19: per-IP timeout carries partial results: the records ScanDevice
\* returned together with its timeout error are in the collected results of
\* the cycle.
C19_TimeoutKeepsPartial ==
    fanPc = "persist" =>
        \A w \in 1..NumWorkers :
            wReturned[w].how = "timeout" =>
                /\ wReturned[w].err
                /\ \A k \in 1..Len(wReturned[w].results) :
                      wReturned[w].results[k] \in CollectedSet

\* the workers whose ScanDevice returned an error
FailedWorkers == {w \in 1..NumWorkers : wReturned[w].err}

-----------------------------------------------------------------------------
(* Claims about the errors of one room, checked under SpecRoom *)

\* C17: per-room errors do not stop the cycle: once runScanProcess has dealt
\* with what RunScanRoom returned, the alive IPs of every room that stored
\* them are passed on to SNMP identification, whatever error another room
\* ended with.
C17_RoomErrorKeepsOtherRooms ==
    cyclePc # "rooms" =>
        \A r \in activeIPInfos : r \notin roomFailed => r \in activeIPs

-----------------------------------------------------------------------------
(* Claims about the concurrency bounds, checked under SpecRoom and SpecFan *)

\* the rooms whose liveness sweep is in progress
SweepsInProgress == {r \in 1..ipRanges : sweepPc[r] = "running"}

\* C21: room-level concurrency bound: at every moment of RunScanRoom the
\* number of liveness sweeps in progress is at most scanner.MaxConcurrent,
\* the sweeps whose room task timed out and released its slot included.
C21_RoomSweepsBounded ==
    Cardinality(SweepsInProgress) <= roomMaxConcurrent


\* the workers whose orchestration has protocol I/O in progress: ScanDevice
\* has not returned, or it returned on timeout and its task runs on
OrchestrationsInProgress ==
    {w \in 1..NumWorkers : wPc[w] = "scan" \/ taskRunning[w]}

\* C22: IP-level concurrency bound: at every moment of the identification
\* phase the number of per-IP orchestrations with protocol I/O in progress
\* is at most the configured bound, the orchestrations whose ScanDevice call
\* returned on timeout while their task is still running included.
C22_OrchestrationsBounded ==
    Cardinality(OrchestrationsInProgress) <= ipMaxConcurrent


-----------------------------------------------------------------------------
(* Claims about the Modbus sweep, checked under SpecModbus *)

\* C23: MatchModbusInstances returns at most one record per (port, slave ID)
\* pair: the returned list holds no two records with the same IP, port and
\* slave ID.
C23_OneRecordPerPair ==
    \A i, j \in 1..Len(mbResults) :
        (/\ mbResults[i].IP = mbResults[j].IP
         /\ mbResults[i].Port = mbResults[j].Port
         /\ mbResults[i].SlaveID = mbResults[j].SlaveID) => i = j

\* the first target, in configuration order, whose signature the text holds
RECURSIVE FirstTextualMatch(_, _)
FirstTextualMatch(targetConfigs, text) ==
    IF targetConfigs = <<>> THEN "none"
    ELSE IF Contains(text, Head(targetConfigs).MatchValueContains)
    THEN Head(targetConfigs).Name
    ELSE FirstTextualMatch(Tail(targetConfigs), text)

\* the targets a pair was classified as
ModelsOf(pair) ==
    {modbusConnInfos[i].Model :
        i \in {k \in 1..Len(modbusConnInfos) :
                  <<modbusConnInfos[k].Port, modbusConnInfos[k].SlaveID>> = pair}}

\* C24: Modbus classification is first-textual-match in target order: once
\* the sweep is over, a pair whose match read returned a text is classified
\* as the first Modbus target, in configuration order, whose signature is a
\* substring of the text, and as nothing when the text holds no signature.
C24_FirstTextualMatch ==
    (mbPos.pc = "returned" /\ mbMode \in SupportedModes) =>
        \A p \in PairsOf(mbPort, mbSlaveID) :
            pairAnswer[p].kind = "text" =>
                ModelsOf(p) =
                    {FirstTextualMatch(mbTargetConfigs, pairAnswer[p].text)} \ {"none"}

\* C25: Modbus sweep coverage: GetModbusValue of the match session is called
\* for every pair of ports x slave IDs exactly once, whatever happened at
\* earlier pairs.
C25_SweepCoverage ==
    /\ \A p \in PairsOf(mbPort, mbSlaveID) : matchReads[p] <= 1
    /\ mbPos.pc = "returned" => \A p \in PairsOf(mbPort, mbSlaveID) : matchReads[p] = 1

\* the sweep returned after a failure at its first pair and a text at a later
\* pair
C25_Witness ==
    /\ mbPos.pc = "returned"
    /\ mbMode \in SupportedModes
    /\ Len(mbSlaveID) = 2
    /\ pairAnswer[<<mbPort[1], mbSlaveID[1]>>].kind \in {"connfail", "readerr", "zero"}
    /\ pairAnswer[<<mbPort[1], mbSlaveID[2]>>].kind = "text"
    /\ matchReads[<<mbPort[1], mbSlaveID[2]>>] = 1

\* C26: no Modbus connection leak: at most one connection is open at any
\* time, none is open between two calls of GetModbusValue, and none is open
\* when MatchModbusInstances returns.
C26_NoConnectionLeak ==
    /\ openConns <= 1
    /\ mbPos.pc \in {"match", "detail", "returned"} => openConns = 0

\* the sweep returned after a read error, an all-zero payload and a record
C26_Witness ==
    /\ mbPos.pc = "returned"
    /\ openConns = 0
    /\ \E p, q \in PairsOf(mbPort, mbSlaveID) :
          pairAnswer[p].kind = "readerr" /\ pairAnswer[q].kind = "zero"
    /\ Len(mbResults) > 0


-----------------------------------------------------------------------------
(* Claims about the timeout of ScanDevice, checked under SpecRace *)

\* C27: timeout race isolation: when ScanDevice returns because the timeout
\* fired first, (a) nothing its task produces appears in the cycle output,
\* and (b) no shared variable (results, scanErrors) is read without
\* synchronisation with the task that writes it.
C27_TimeoutRaceIsolation ==
    sdReturned.via = "timeout" =>
        /\ cycleOutput = <<>>
        /\ cycleErrors <= 1
        /\ unsyncedReads \cap taskWrites = {}


-----------------------------------------------------------------------------
(* Claims about a crash inside the persistence, checked under SpecPersist *)

\* C28: crash tolerance of reload-based dedup: in the cycle that follows a
\* crash inside a persistence step, the reloaded index holds the identity
\* key of every data row present in the pending files.
C28_ReloadAfterCrash ==
    (persistPc = "loaded" /\ lastCrashed) =>
        \A i \in 1..Len(PendingKeys) : SeqContains(ScanIPKeyList, PendingKeys[i])


-----------------------------------------------------------------------------
(* Claims about the end of ExpandRange, checked under SpecAddr *)

\* C29: ExpandRange terminates for every valid range: for valid start <= end
\* the loop never makes more than end - start + 1 turns, so the list never
\* holds more addresses than the range has.
C29_ExpandRangeStops ==
    ValidRange =>
        Len(ips) <= CountUpTo(BytesOf(startIP), BytesOf(endIP), MaxExpand + 1)


-----------------------------------------------------------------------------
(* Claims about an IP without SNMP, checked under SpecMatch *)

\* C30: match-phase connection failure means 'no SNMP here': when no match
\* session of the IP answered, ScanDevice holds no SNMP record for the IP,
\* neither a classified one nor an "unknown" one, the outcome differs from an
\* "unknown" classification, and no Modbus sweep is run on the IP.
C30_ConnectionFailureNoRecord ==
    (scanPc # "start" /\ matchResult = <<>>) =>
        /\ \A k \in 1..Len(results) : results[k].Protocol # PROTOCOL_SNMP
        /\ snmpScanResult # UnknownInstance
        /\ modbusSweeps = 0



\* the candidates GetSNMPTargetByMatchModelValue reads when the skipped set
\* is skip: those that contain the signature of some target
SignedCandidates(skip) ==
    { j \in 1..Len(matchResult) :
        /\ matchResult[j] \notin skip
        /\ \E i \in 1..Len(Targets) :
              Contains(matchResult[j], Targets[i].MatchValueContains) }

\* the device was classified unknown and the unknown session was used
UnknownFallback ==
    /\ snmpScanResult.TargetName = UNKNOWN_NAME
    /\ detailSession = UnknownSession

\* C31 as stated: the unknown target and the unknown-detail session are used
\* if and only if no non-empty candidate contains a signature, and otherwise
\* the detail session is the one built for the selected target
C31_UnknownFallbackAsStated ==
    scanPc # "start" =>
        /\ UnknownFallback <=> SignedCandidates({<<>>}) = {}
        /\ SignedCandidates({<<>>}) # {} =>
              detailSession = [BuiltFor |-> snmpScanResult.TargetName]

\* C31 amended: the unknown target and the unknown-detail session are used
\* if and only if no candidate other than the empty text and the text
\* "<nil>" contains a signature, and otherwise the detail session is the one
\* built for the selected target
C31_UnknownFallback ==
    scanPc # "start" =>
        /\ UnknownFallback <=> SignedCandidates({<<>>, NilText}) = {}
        /\ SignedCandidates({<<>>, NilText}) # {} =>
              /\ snmpScanResult.TargetName \in {Targets[i].Name : i \in 1..Len(Targets)}
              /\ detailSession = [BuiltFor |-> snmpScanResult.TargetName]

\* C31 witness: two targets, the second one was selected and its session used
C31_Witness ==
    /\ scanPc = "done"
    /\ Len(Targets) = 2
    /\ SignedCandidates({<<>>, NilText}) # {}
    /\ snmpScanResult.TargetName = Targets[2].Name
    /\ detailSession = DetailFieldSessions(Targets)[2]

-----------------------------------------------------------------------------
(* Claims about the Modbus library and the slave IDs, checked under SpecModbus *)

\* C32: the target list of the Modbus library is the list of the configured
\* Modbus targets, in configuration order, each one once, whatever the number
\* of ports and slave IDs
C32_LibraryOrder ==
    loadModbusInstanceLib(mbPort, mbSlaveID, mbTargetConfigs) = mbTargetConfigs

\* C38: the slave ID addressed on the wire by a match read and by a detail
\* read is the slave ID of the configuration, which the record and its key
\* carry
C38_SlaveIDNotNarrowed ==
    /\ mbPos.pc = "matchRead" => connSlaveID = mbSlaveID[mbPos.slave]
    /\ mbPos.pc = "detailRead" =>
          connSlaveID = modbusConnInfos[mbPos.detail].SlaveID

-----------------------------------------------------------------------------
(* Claims about the cascade and the records, checked under SpecMatch *)

\* the Modbus target whose model a record carries
ModbusTargetOfModel(model) ==
    IF model = "PDU1315" THEN PDU1315_NAME
    ELSE IF model = "PDU4445" THEN PDU4445_NAME
    ELSE ""

\* C33: every Modbus record appended by the cascade of a dependency is
\* classified as one of the targets of that dependency's linked_target list
C33_CascadeLinkedTargets ==
    [][DependencySweep =>
          \A k \in (Len(results) + 1)..Len(results') :
             \E l \in 1..Len(Dependencies[depIdx].LinkedTarget) :
                ModbusTargetOfModel(results'[k].Model)
                   = Dependencies[depIdx].LinkedTarget[l]]_vars

\* C35: every record ScanDevice returns for the probed host carries the
\* probed IP, and its SNMP record carries the probed SNMP port
C35_RecordsCarryProbedAddress ==
    scanPc # "start" =>
        \A k \in 1..Len(results) :
           /\ results[k].IP = ProbedIP
           /\ results[k].Protocol = PROTOCOL_SNMP => results[k].Port = SnmpPort

-----------------------------------------------------------------------------
(* Claims about failed writes and the identity key, checked under SpecPersist *)

\* the identity keys the rows of a pending file carry
RowKeys(file) == {file.rows[i][1] : i \in 1..Len(file.rows)}

\* C34: when the append of a batch failed, none of its identity keys is in
\* the in-memory index after the cycle: every key the index holds at the end
\* of a cycle is the key of a row of a pending file
C34_FailedAppendNotDelivered ==
    (persistPc = "idle" /\ cycle > 0 /\ ~lastCrashed) =>
        \A i \in 1..Len(ScanIPKeyList) :
           ScanIPKeyList[i] \in RowKeys(filePdu) \cup RowKeys(fileDev)

-----------------------------------------------------------------------------
(* Claims about the identity key, checked under SpecKey *)

\* the fields of a key are the IP, the port and, for Modbus, the slave ID
KeyHasFormat(key, r) ==
    LET parts == Split(key, ":")
    IN  /\ Len(parts) = IF r.Protocol = PROTOCOL_MODBUS THEN 3 ELSE 2
        /\ parts[1] = r.IP
        /\ ParseDec(parts[2]) = r.Port
        /\ r.Protocol = PROTOCOL_MODBUS => ParseDec(parts[3]) = r.SlaveID

\* two records agree on what identifies a device
SameIdentity(a, b) ==
    /\ a.Protocol = b.Protocol
    /\ a.IP = b.IP
    /\ a.Port = b.Port
    /\ a.Protocol = PROTOCOL_MODBUS => a.SlaveID = b.SlaveID

\* C37: the key is "ip:port" for an SNMP record and "ip:port:slave" for a
\* Modbus record, the same in FilteredResults and FilterRegisteredDevices;
\* two records get the same key if and only if they agree on the IP, the
\* port and (for Modbus) the slave ID, and an SNMP key is never a Modbus key
C37_KeyInjective ==
    keyPc = "both" =>
        /\ filteredKeys = registeredKeys
        /\ \A i \in 1..Len(keyRecs) : KeyHasFormat(filteredKeys[i], keyRecs[i])
        /\ filteredKeys[1] = filteredKeys[2] <=> SameIdentity(keyRecs[1], keyRecs[2])
        /\ keyRecs[1].Protocol # keyRecs[2].Protocol => filteredKeys[1] # filteredKeys[2]

\* C37 witness: the SNMP record 10.0.0.1:161 and the Modbus record
\* 10.0.0.1:16:1, whose keys differ only by the second separator
C37_Witness ==
    /\ keyPc = "both"
    /\ keyRecs[1] = [IP |-> IPString(<<10, 0, 0, 1>>), Port |-> 161, SlaveID |-> 0,
                     Protocol |-> PROTOCOL_SNMP]
    /\ keyRecs[2] = [IP |-> IPString(<<10, 0, 0, 1>>), Port |-> 16, SlaveID |-> 1,
                     Protocol |-> PROTOCOL_MODBUS]
    /\ filteredKeys[1] # filteredKeys[2]

-----------------------------------------------------------------------------
(* Claims about the scan manager, checked under SpecMgr *)

\* the runScan tasks that have not ended
ExecutingScans == {k \in 1..Len(scanTasks) : scanTasks[k].pc = "running"}

\* C39: at most one runScan task is executing at any time, and the status
\* says running while a scan that was not stopped is executing (the end of
\* an earlier task does not clear it)
C39_AtMostOneScan ==
    /\ Cardinality(ExecutingScans) <= 1
    /\ \A k \in ExecutingScans : ~scanTasks[k].cancelled => statusRunning

====
